---- MODULE Spec2Model ----
(***************************************************************************)
(* Model of sw-trading-types: the position lifecycle state machine         *)
(* (src/types/position/lifecycle.ts) and the multi-period performance      *)
(* aggregator (src/types/position/performance.ts).                         *)
(*                                                                         *)
(* TransitionCheckSpec : isValidTransition applied to one (from, to).       *)
(* LifecycleSpec : one position driven by the callers' validated status    *)
(*                 changes and by the loop of the daily sweep over         *)
(*                 DAILY_SYNC_RULES, interleaved at the sweep's awaits.    *)
(* Spec          : calls of processPositionLiquidation against a keyed     *)
(*                 record store whose operations may fail.                 *)
(* ConcurrentSpec: pairs of interleaved calls against a store that does    *)
(*                 not fail.                                               *)
(* SequentialSpec: serialised calls over a wider set of trades against a   *)
(*                 store that does not fail.                               *)
(* FaultyConcurrentSpec : pairs of interleaved calls against a store       *)
(*                 in which each call may see one operation fail.          *)
(* ReconcileSpec : one position driven only by reconciliation steps over   *)
(*                 DAILY_SYNC_RULES.                                       *)
(* LogSpec       : calls of createStatusTransitionLog against a            *)
(*                 millisecond clock, each log then stored under its id.   *)
(* LocalTimeSpec : serialised calls in a process whose time zone is        *)
(*                 America/Nuuk and whose clock moves between two reads.   *)
(***************************************************************************)
EXTENDS Integers, Sequences, FiniteSets, TLC

VARIABLES
    lifecycleStatus,   \* the position's PositionLifecycleStatus
    lastCheck,         \* the last isValidTransition(from, to) call and its outcome
    lastMove,          \* the last status change applied, and who applied it
    lastSync,          \* the last reconciliation lookup and what it did
    store,             \* the record store: (collection, docId) -> PerformanceRecord
    call,              \* per caller: the processPositionLiquidation call in flight
    returned,          \* the calls that have returned, in order of return
    now,               \* the clock read by getCurrentTime
    started,           \* the calls of processPositionLiquidation made so far
    syncChanges,       \* status changes made by reconciliation steps
    transitionLogs,    \* the logs createStatusTransitionLog has returned, in order
    logStore,          \* status_transition_logs: log id -> the log stored under it
    unsaved,           \* the logs returned whose doc(log.id).set(log) is still to
                       \* be applied, as indices of transitionLogs
    clock,             \* the millisecond clock read by Date.now()
    sweep              \* the daily sweep: where it is in its loop, the
                       \* position.status it holds and the target it asked for

auditVars == <<syncChanges, transitionLogs, logStore, unsaved, clock>>

lifecycleVars == <<lifecycleStatus, lastCheck, lastMove, lastSync, auditVars, sweep>>

perfVars == <<store, call, returned, now, started>>

vars == <<lifecycleVars, perfVars>>

(***************************************************************************)
(* LifecycleStateMachine: src/types/position/lifecycle.ts                  *)
(***************************************************************************)

\* PositionLifecycleStatus, in declaration order.
PositionLifecycleStatus ==
    { "entry_order_pending", "entry_order_failed", "entry_order_cancelled",
      "entry_unconfirmed", "confirmed",
      "exit_order_pending", "exit_order_failed", "exit_order_cancelled",
      "liquidated", "expired" }

\* SyncRule.pendingOrderStatus.
OrderStatus == { "pending", "completed", "failed", "cancelled" }

\* ALLOWED_TRANSITIONS as it would read had "expired" been left without a
\* re-order transition.
ALLOWED_TRANSITIONS_expiredTerminal ==
    [ entry_order_pending   |-> << "entry_unconfirmed", "entry_order_failed",
                                   "entry_order_cancelled", "expired" >>,
      entry_order_failed    |-> << "entry_order_pending" >>,
      entry_order_cancelled |-> << "entry_order_pending" >>,
      entry_unconfirmed     |-> << "confirmed", "expired" >>,
      confirmed             |-> << "exit_order_pending" >>,
      exit_order_pending    |-> << "liquidated", "exit_order_failed",
                                   "exit_order_cancelled" >>,
      exit_order_failed     |-> << "exit_order_pending", "confirmed" >>,
      exit_order_cancelled  |-> << "exit_order_pending", "confirmed" >>,
      liquidated            |-> << >>,
      expired               |-> << >> ]

\* ALLOWED_TRANSITIONS as it would read had "liquidated" been given the same
\* way back as the failed and cancelled exit orders.
ALLOWED_TRANSITIONS_liquidatedReopens ==
    [ entry_order_pending   |-> << "entry_unconfirmed", "entry_order_failed",
                                   "entry_order_cancelled", "expired" >>,
      entry_order_failed    |-> << "entry_order_pending" >>,
      entry_order_cancelled |-> << "entry_order_pending" >>,
      entry_unconfirmed     |-> << "confirmed", "expired" >>,
      confirmed             |-> << "exit_order_pending" >>,
      exit_order_pending    |-> << "liquidated", "exit_order_failed",
                                   "exit_order_cancelled" >>,
      exit_order_failed     |-> << "exit_order_pending", "confirmed" >>,
      exit_order_cancelled  |-> << "exit_order_pending", "confirmed" >>,
      liquidated            |-> << "exit_order_pending", "confirmed" >>,
      expired               |-> << "entry_order_pending" >> ]

\* The object literal ALLOWED_TRANSITIONS: its own properties, each an array.
ALLOWED_TRANSITIONS ==
    [ entry_order_pending   |-> << "entry_unconfirmed", "entry_order_failed",
                                   "entry_order_cancelled", "expired" >>,
      entry_order_failed    |-> << "entry_order_pending" >>,
      entry_order_cancelled |-> << "entry_order_pending" >>,
      entry_unconfirmed     |-> << "confirmed", "expired" >>,
      confirmed             |-> << "exit_order_pending" >>,
      exit_order_pending    |-> << "liquidated", "exit_order_failed",
                                   "exit_order_cancelled" >>,
      exit_order_failed     |-> << "exit_order_pending", "confirmed" >>,
      exit_order_cancelled  |-> << "exit_order_pending", "confirmed" >>,
      liquidated            |-> << >>,
      expired               |-> << "entry_order_pending" >> ]

\* Property names every object literal inherits from Object.prototype: a lookup
\* table[key] with one of these keys yields the inherited member (a function or
\* an object), never undefined and never an array.
ObjectPrototypeKeys ==
    { "constructor", "toString", "toLocaleString", "valueOf", "hasOwnProperty",
      "isPrototypeOf", "propertyIsEnumerable", "__proto__",
      "__defineGetter__", "__defineSetter__", "__lookupGetter__", "__lookupSetter__" }

\* Array.prototype.includes on a sequence.
Includes(arr, x) == \E i \in 1..Len(arr) : arr[i] = x

\* isValidTransition(from, to):
\*     return ALLOWED_TRANSITIONS[from]?.includes(to) ?? false;
\* The outcome is [raised, value]: raised = TRUE is the TypeError of calling the
\* missing member "includes" of a value that is neither nullish nor an array.
isValidTransition(from, to) ==
    IF from \in DOMAIN ALLOWED_TRANSITIONS
      THEN [raised |-> FALSE, value |-> Includes(ALLOWED_TRANSITIONS[from], to)]
      ELSE IF from \in ObjectPrototypeKeys
             THEN [raised |-> TRUE, value |-> FALSE]
             ELSE [raised |-> FALSE, value |-> FALSE]   \* undefined ?? false

\* The values a caller may pass as `from`: the ten statuses, a string that names
\* no property, and strings that name inherited properties.
FromInputs == PositionLifecycleStatus \cup { "unknown_status" } \cup ObjectPrototypeKeys

\* The values a caller may pass as `to`.
ToInputs == PositionLifecycleStatus \cup { "unknown_status" }

\* One SyncRule object literal (the reason string is omitted).
SyncRule(orderStatus, current, target, action) ==
    [ pendingOrderStatus |-> orderStatus, currentPositionStatus |-> current,
      targetPositionStatus |-> target, action |-> action ]

\* DAILY_SYNC_RULES with a second rule for the key (completed, entry_unconfirmed).
DAILY_SYNC_RULES_duplicateKey ==
    << SyncRule("completed", "entry_order_pending", "entry_unconfirmed",     "transition"),
       SyncRule("failed",    "entry_order_pending", "entry_order_failed",    "transition"),
       SyncRule("cancelled", "entry_order_pending", "entry_order_cancelled", "transition"),
       SyncRule("pending",   "entry_order_pending", "expired",               "expire"),
       SyncRule("completed", "entry_unconfirmed",   "expired",               "expire"),
       SyncRule("completed", "entry_unconfirmed",   "confirmed",             "transition"),
       SyncRule("completed", "exit_order_pending",  "liquidated",            "transition"),
       SyncRule("failed",    "exit_order_pending",  "exit_order_failed",     "transition"),
       SyncRule("cancelled", "exit_order_pending",  "exit_order_cancelled",  "transition") >>

\* DAILY_SYNC_RULES with the rule for a cancelled exit order putting the
\* position back to confirmed at once.
DAILY_SYNC_RULES_cancelRestoresConfirmed ==
    << SyncRule("completed", "entry_order_pending", "entry_unconfirmed",     "transition"),
       SyncRule("failed",    "entry_order_pending", "entry_order_failed",    "transition"),
       SyncRule("cancelled", "entry_order_pending", "entry_order_cancelled", "transition"),
       SyncRule("pending",   "entry_order_pending", "expired",               "expire"),
       SyncRule("completed", "entry_unconfirmed",   "expired",               "expire"),
       SyncRule("completed", "exit_order_pending",  "liquidated",            "transition"),
       SyncRule("failed",    "exit_order_pending",  "exit_order_failed",     "transition"),
       SyncRule("cancelled", "exit_order_pending",  "confirmed",             "transition") >>

\* DAILY_SYNC_RULES with a rule that re-orders an expired position whose order
\* is still pending.
DAILY_SYNC_RULES_reordersExpired ==
    << SyncRule("completed", "entry_order_pending", "entry_unconfirmed",     "transition"),
       SyncRule("failed",    "entry_order_pending", "entry_order_failed",    "transition"),
       SyncRule("cancelled", "entry_order_pending", "entry_order_cancelled", "transition"),
       SyncRule("pending",   "entry_order_pending", "expired",               "expire"),
       SyncRule("completed", "entry_unconfirmed",   "expired",               "expire"),
       SyncRule("completed", "exit_order_pending",  "liquidated",            "transition"),
       SyncRule("failed",    "exit_order_pending",  "exit_order_failed",     "transition"),
       SyncRule("cancelled", "exit_order_pending",  "exit_order_cancelled",  "transition"),
       SyncRule("pending",   "expired",             "entry_order_pending",   "transition") >>

\* DAILY_SYNC_RULES, in array order.
DAILY_SYNC_RULES ==
    << SyncRule("completed", "entry_order_pending", "entry_unconfirmed",     "transition"),
       SyncRule("failed",    "entry_order_pending", "entry_order_failed",    "transition"),
       SyncRule("cancelled", "entry_order_pending", "entry_order_cancelled", "transition"),
       SyncRule("pending",   "entry_order_pending", "expired",               "expire"),
       SyncRule("completed", "entry_unconfirmed",   "expired",               "expire"),
       SyncRule("completed", "exit_order_pending",  "liquidated",            "transition"),
       SyncRule("failed",    "exit_order_pending",  "exit_order_failed",     "transition"),
       SyncRule("cancelled", "exit_order_pending",  "exit_order_cancelled",  "transition") >>

\* The rule lookup with the comparison of the order status left out.
MatchingRules_ignoresOrderStatus(orderStatus, status) ==
    { i \in 1..Len(DAILY_SYNC_RULES) :
        DAILY_SYNC_RULES[i].currentPositionStatus = status }

\* The indices of the rules r with r.pendingOrderStatus === orderStatus and
\* r.currentPositionStatus === status, in array order.
MatchingRules(orderStatus, status) ==
    { i \in 1..Len(DAILY_SYNC_RULES) :
        /\ DAILY_SYNC_RULES[i].pendingOrderStatus = orderStatus
        /\ DAILY_SYNC_RULES[i].currentPositionStatus = status }

Min(S) == CHOOSE x \in S : \A y \in S : x <= y

\* DAILY_SYNC_RULES.find(r => ...): the first matching rule, as a sequence of
\* length 0 (undefined) or 1.
FindSyncRule(orderStatus, status) ==
    LET m == MatchingRules(orderStatus, status)
    IN  IF m = {} THEN << >> ELSE << DAILY_SYNC_RULES[Min(m)] >>

NoCheck == [from |-> "none", to |-> "none", done |-> FALSE, raised |-> FALSE, value |-> FALSE]
NoMove  == [from |-> "none", to |-> "none", by |-> "none"]
NoSync  == [observed |-> "none", stale |-> FALSE, current |-> "none", matches |-> 0,
            action |-> "none", target |-> "none", applied |-> FALSE,
            before |-> "none", after |-> "none"]

\* The daily sweep between two iterations of its loop.
IdleSweep == [pc |-> "idle", status |-> "none", target |-> "none"]

\* No reconciliation step taken and no transition log created yet.
AuditInit ==
    /\ syncChanges = 0
    /\ transitionLogs = << >>
    /\ logStore = << >>
    /\ unsaved = {}
    /\ clock = 0
    /\ sweep = IdleSweep

\* A caller about to validate a status change: the arguments are its own.
TransitionCheckInit ==
    /\ AuditInit
    /\ lifecycleStatus = "entry_order_pending"
    /\ \E from \in FromInputs, to \in ToInputs :
          lastCheck = [NoCheck EXCEPT !.from = from, !.to = to]
    /\ lastMove = NoMove
    /\ lastSync = NoSync

\* The call isValidTransition(from, to) on the caller's arguments.
CheckTransition ==
    /\ ~lastCheck.done
    /\ lastCheck' = [from |-> lastCheck.from, to |-> lastCheck.to, done |-> TRUE]
                    @@ isValidTransition(lastCheck.from, lastCheck.to)
    /\ UNCHANGED <<lifecycleStatus, lastMove, lastSync, auditVars, sweep, perfVars>>

TransitionCheckNext == CheckTransition

\* A position document as the caller creates it: any stored lifecycle status.
LifecycleInit ==
    /\ AuditInit
    /\ lifecycleStatus \in PositionLifecycleStatus
    /\ lastCheck = NoCheck
    /\ lastMove = NoMove
    /\ lastSync = NoSync

\* A status change asked of the stored position. The function that writes the
\* status is not part of the library; it is taken as the specification requires
\* of the library's callers: the attempt is checked with isValidTransition on
\* the stored status,
\*     if (!isValidTransition(currentStatus, newStatus)) throw ...;
\* and a rejected attempt leaves the stored position as it is.
WriteStatus(to, by) ==
    LET r == isValidTransition(lifecycleStatus, to)
    IN  IF ~r.raised /\ r.value
          THEN /\ lifecycleStatus' = to
               /\ lastMove' = [from |-> lifecycleStatus, to |-> to, by |-> by]
          ELSE /\ lifecycleStatus' = lifecycleStatus
               /\ lastMove' = [from |-> lifecycleStatus, to |-> to, by |-> "rejected"]

\* The validated status change of a caller other than the sweep.
ApplyTransition(to) ==
    /\ WriteStatus(to, "validated")
    /\ UNCHANGED <<lastCheck, lastSync, auditVars, sweep, perfVars>>

\* The sweep takes a position of its loop, holding the position.status it was
\* read with, and awaits checkOrderStatus(position.orderId).
SweepRead ==
    /\ sweep.pc = "idle"
    /\ sweep' = [pc |-> "awaiting", status |-> lifecycleStatus, target |-> "none"]
    /\ UNCHANGED <<lifecycleStatus, lastCheck, lastMove, lastSync, auditVars, perfVars>>

\* checkOrderStatus resolves: the sweep looks the rule up for the order status
\* and the position.status it holds, and
\*     if (rule && rule.action === 'transition')
\*         await updatePositionStatus(position.id, rule.targetPositionStatus);
\* An 'expire' or 'maintain' rule, like no rule, ends the iteration: the loop
\* takes no measure of how long the position has been in its status. The lookup
\* itself writes nothing.
SweepLookup(orderStatus) ==
    LET found == FindSyncRule(orderStatus, sweep.status)
        asks == found # << >> /\ found[1].action = "transition"
    IN  /\ sweep.pc = "awaiting"
        /\ lastSync' = [ observed |-> orderStatus, stale |-> FALSE,
                         current |-> sweep.status,
                         matches |-> Cardinality(MatchingRules(orderStatus, sweep.status)),
                         action |-> IF found = << >> THEN "none" ELSE found[1].action,
                         target |-> IF found = << >> THEN "none"
                                    ELSE found[1].targetPositionStatus,
                         applied |-> FALSE,
                         before |-> lifecycleStatus,
                         after |-> lifecycleStatus ]
        /\ sweep' = IF asks
                      THEN [ pc |-> "updating", status |-> sweep.status,
                             target |-> found[1].targetPositionStatus ]
                      ELSE IdleSweep
        /\ UNCHANGED <<lifecycleStatus, lastCheck, lastMove, auditVars, perfVars>>

\* updatePositionStatus(position.id, rule.targetPositionStatus) of the sweep:
\* the status change the rule names is asked of the stored position, and the
\* iteration ends. lastSync.before and lastSync.after are the stored status the
\* write found and left.
UpdatePositionStatus ==
    /\ sweep.pc = "updating"
    /\ WriteStatus(sweep.target, "transition")
    /\ lastSync' = [ lastSync EXCEPT !.applied = (lastMove'.by = "transition"),
                                     !.before = lifecycleStatus,
                                     !.after = lifecycleStatus' ]
    /\ sweep' = IdleSweep
    /\ UNCHANGED <<lastCheck, auditVars, perfVars>>

\* STATUS_DISPLAY_INFO[status].actions.
StatusActions ==
    [ entry_order_pending   |-> << "cancel" >>,
      entry_order_failed    |-> << "retry", "delete" >>,
      entry_order_cancelled |-> << "retry", "delete" >>,
      entry_unconfirmed     |-> << "confirm", "exit" >>,
      confirmed             |-> << "exit", "edit" >>,
      exit_order_pending    |-> << "cancel" >>,
      exit_order_failed     |-> << "retry", "cancel" >>,
      exit_order_cancelled  |-> << "retry", "hold" >>,
      liquidated            |-> << "archive" >>,
      expired               |-> << "reorder", "delete" >> ]

\* getAvailableActions(status): STATUS_DISPLAY_INFO[status]?.actions || [].
getAvailableActions(status) ==
    IF status \in DOMAIN StatusActions THEN StatusActions[status] ELSE << >>

\* The log id `${positionId}_${Date.now()}`.
LogId(positionId, ms) == << positionId, ms >>

MaxLogs == 2       \* transition logs created in one behaviour
MaxClock == 2      \* milliseconds the clock advances in one behaviour

\* The positions and the status changes logs are created for.
LogPositions == { "pos456", "pos457" }
LogChanges ==
    { << "entry_order_pending", "entry_unconfirmed" >>,
      << "entry_unconfirmed", "confirmed" >>,
      << "confirmed", "exit_order_pending" >> }

\* createStatusTransitionLog(userId, positionId, from, to, ...): the id is
\* built from Date.now(), the timestamp is a new Date() read after it, by when
\* the clock may have moved on by `tick`. The log is returned to the caller,
\* who has still to store it.
CreateLog(positionId, from, to, tick) ==
    LET log == [ id |-> LogId(positionId, clock),
                 positionId |-> positionId,
                 fromStatus |-> from, toStatus |-> to,
                 timestamp |-> clock + tick ]
    IN  /\ Len(transitionLogs) < MaxLogs
        /\ clock + tick <= MaxClock
        /\ clock' = clock + tick
        /\ transitionLogs' = Append(transitionLogs, log)
        /\ unsaved' = unsaved \cup { Len(transitionLogs) + 1 }
        /\ UNCHANGED <<lifecycleStatus, lastCheck, lastMove, lastSync, syncChanges,
                       logStore, sweep, perfVars>>

\* The caller's collection('status_transition_logs').doc(log.id).set(log) for
\* the i-th log returned: the document of that id is the log from now on.
StoreLog(i) ==
    /\ i \in unsaved
    /\ logStore' = (transitionLogs[i].id :> transitionLogs[i]) @@ logStore
    /\ unsaved' = unsaved \ { i }
    /\ UNCHANGED <<lifecycleStatus, lastCheck, lastMove, lastSync, syncChanges,
                   transitionLogs, clock, sweep, perfVars>>

\* The millisecond clock advances.
ClockTick ==
    /\ clock < MaxClock
    /\ clock' = clock + 1
    /\ UNCHANGED <<lifecycleStatus, lastCheck, lastMove, lastSync, syncChanges,
                   transitionLogs, logStore, unsaved, sweep, perfVars>>

\* One step of reconciliation as the rules define it, on a position nothing
\* else moves: the order status observed and the position's status select a
\* rule; a 'transition' rule moves the position to the rule's target, an
\* 'expire' rule does so when the position is stale, a 'maintain' rule and no
\* rule leave it as it is. The status changes are counted.
ReconcileStep(orderStatus, stale) ==
    LET found == FindSyncRule(orderStatus, lifecycleStatus)
        moves == /\ found # << >>
                 /\ \/ found[1].action = "transition"
                    \/ found[1].action = "expire" /\ stale
    IN  /\ IF moves
             THEN /\ lifecycleStatus' = found[1].targetPositionStatus
                  /\ lastMove' = [ from |-> lifecycleStatus,
                                   to |-> found[1].targetPositionStatus,
                                   by |-> found[1].action ]
                  /\ syncChanges' = syncChanges + 1
             ELSE UNCHANGED <<lifecycleStatus, lastMove, syncChanges>>
        /\ lastSync' = [ observed |-> orderStatus, stale |-> stale,
                         current |-> lifecycleStatus,
                         matches |-> Cardinality(MatchingRules(orderStatus, lifecycleStatus)),
                         action |-> IF found = << >> THEN "none" ELSE found[1].action,
                         target |-> IF found = << >> THEN "none"
                                    ELSE found[1].targetPositionStatus,
                         applied |-> moves,
                         before |-> lifecycleStatus,
                         after |-> lifecycleStatus' ]
        /\ UNCHANGED <<lastCheck, transitionLogs, logStore, unsaved, clock, sweep,
                       perfVars>>

ReconcileNext == \E o \in OrderStatus, stale \in BOOLEAN : ReconcileStep(o, stale)

LogNext ==
    \/ \E positionId \in LogPositions, change \in LogChanges, tick \in 0..1 :
          CreateLog(positionId, change[1], change[2], tick)
    \/ \E i \in 1..MaxLogs : StoreLog(i)
    \/ ClockTick

LifecycleNext ==
    \/ \E to \in PositionLifecycleStatus : ApplyTransition(to)
    \/ SweepRead
    \/ \E o \in OrderStatus : SweepLookup(o)
    \/ UpdatePositionStatus


(***************************************************************************)
(* Lifecycle claims                                                        *)
(***************************************************************************)

\* The authoritative transition table of the specification, as (from, to) pairs.
AuthoritativeTransitions ==
    { <<"entry_order_pending", "entry_unconfirmed">>,
      <<"entry_order_pending", "entry_order_failed">>,
      <<"entry_order_pending", "entry_order_cancelled">>,
      <<"entry_order_pending", "expired">>,
      <<"entry_order_failed", "entry_order_pending">>,
      <<"entry_order_cancelled", "entry_order_pending">>,
      <<"entry_unconfirmed", "confirmed">>,
      <<"entry_unconfirmed", "expired">>,
      <<"confirmed", "exit_order_pending">>,
      <<"exit_order_pending", "liquidated">>,
      <<"exit_order_pending", "exit_order_failed">>,
      <<"exit_order_pending", "exit_order_cancelled">>,
      <<"exit_order_failed", "exit_order_pending">>,
      <<"exit_order_failed", "confirmed">>,
      <<"exit_order_cancelled", "exit_order_pending">>,
      <<"exit_order_cancelled", "confirmed">>,
      <<"expired", "entry_order_pending">> }

\* C1: every call isValidTransition(from, to) returns (it does not raise), and
\* returns true exactly when (from, to) is a pair of the authoritative table;
\* in particular it returns false for a `from` outside the ten statuses.
C1_ValidExactlyWhenListed ==
    lastCheck.done =>
        /\ ~lastCheck.raised
        /\ lastCheck.value = (<<lastCheck.from, lastCheck.to>> \in AuthoritativeTransitions)

\* C2: ALLOWED_TRANSITIONS has an entry for each of the ten statuses, the entry
\* of liquidated is empty and every other entry is not; every call
\* isValidTransition('liquidated', t) returns false.
C2_LiquidatedOnlyTerminal ==
    /\ DOMAIN ALLOWED_TRANSITIONS = PositionLifecycleStatus
    /\ \A s \in PositionLifecycleStatus :
          (Len(ALLOWED_TRANSITIONS[s]) = 0) <=> (s = "liquidated")
    /\ (lastCheck.done /\ lastCheck.from = "liquidated") =>
          (~lastCheck.raised /\ ~lastCheck.value)

\* C2 witness: isValidTransition('liquidated', 'exit_order_pending') was called.
C2_Witness ==
    /\ lastCheck.done
    /\ lastCheck.from = "liquidated"
    /\ lastCheck.to = "exit_order_pending"

\* A step of the callers' validated status change.
ValidatedStep == \E to \in PositionLifecycleStatus : ApplyTransition(to)

\* C3 (as stated): once the status is liquidated or expired, no validated
\* status change changes it.
C3_LiquidatedAndExpiredFinal ==
    [][ ValidatedStep =>
           ((lifecycleStatus \in {"liquidated", "expired"})
               => (lifecycleStatus' = lifecycleStatus)) ]_vars

\* C3 (amended): once the status is liquidated no validated status change
\* changes it; from expired the only change a validated status change makes is
\* the re-order to entry_order_pending.
C3_OnlyLiquidatedFinal ==
    [][ ValidatedStep =>
           /\ (lifecycleStatus = "liquidated") => (lifecycleStatus' = "liquidated")
           /\ (lifecycleStatus = "expired")
                 => (lifecycleStatus' \in {"expired", "entry_order_pending"}) ]_vars

\* C3 witness: reconciliation moved the position from exit_order_pending to
\* liquidated, and a status change then asked of it was rejected.
C3_Witness ==
    /\ lifecycleStatus = "liquidated"
    /\ lastSync.current = "exit_order_pending"
    /\ lastSync.after = "liquidated"
    /\ lastMove.from = "liquidated"
    /\ lastMove.by = "rejected"

\* C4: no two rules of DAILY_SYNC_RULES have the same (pendingOrderStatus,
\* currentPositionStatus) pair, so every lookup matches at most one rule.
C4_NoDuplicateRuleKeys ==
    /\ \A i, j \in 1..Len(DAILY_SYNC_RULES) :
          ( /\ DAILY_SYNC_RULES[i].pendingOrderStatus = DAILY_SYNC_RULES[j].pendingOrderStatus
            /\ DAILY_SYNC_RULES[i].currentPositionStatus = DAILY_SYNC_RULES[j].currentPositionStatus )
          => i = j
    /\ lastSync.matches <= 1

\* C4 witness: a lookup matched a rule and the rule was applied.
C4_Witness == lastSync.matches = 1 /\ lastSync.applied

\* C5: every 'transition' rule of DAILY_SYNC_RULES names a (currentPositionStatus,
\* targetPositionStatus) pair isValidTransition accepts; so whenever the sweep
\* finds a transition rule for the status it holds, and whenever the status
\* change of such a rule has been applied, the change from the rule's current
\* status to its target is one the matrix allows.
C5_TransitionRulesAreValid ==
    /\ \A i \in 1..Len(DAILY_SYNC_RULES) :
          DAILY_SYNC_RULES[i].action = "transition" =>
             LET r == isValidTransition(DAILY_SYNC_RULES[i].currentPositionStatus,
                                        DAILY_SYNC_RULES[i].targetPositionStatus)
             IN  ~r.raised /\ r.value
    /\ lastSync.action = "transition" =>
          LET r == isValidTransition(lastSync.current, lastSync.target)
          IN  ~r.raised /\ r.value

\* C5 witness: the sweep held a position in exit_order_pending, found the
\* transition rule of a cancelled order for it and the change to
\* exit_order_cancelled, a pair of the matrix, was applied.
C5_Witness ==
    /\ lastSync.observed = "cancelled"
    /\ lastSync.current = "exit_order_pending"
    /\ lastSync.action = "transition"
    /\ lastSync.target = "exit_order_cancelled"
    /\ lastSync.applied
    /\ lastSync.before = "exit_order_pending"
    /\ lifecycleStatus = "exit_order_cancelled"
    /\ isValidTransition("exit_order_pending", "exit_order_cancelled").value

\* The canonical rule set of the specification: the (action, target) of each
\* (observed order status, current status) pair, "none" where no rule is given.
CanonicalRule(observed, current) ==
    CASE observed = "pending"   /\ current = "entry_order_pending" ->
            [action |-> "expire", target |-> "expired"]
      [] observed = "completed" /\ current = "entry_order_pending" ->
            [action |-> "transition", target |-> "entry_unconfirmed"]
      [] observed = "failed"    /\ current = "entry_order_pending" ->
            [action |-> "transition", target |-> "entry_order_failed"]
      [] observed = "cancelled" /\ current = "entry_order_pending" ->
            [action |-> "transition", target |-> "entry_order_cancelled"]
      [] observed = "completed" /\ current = "entry_unconfirmed" ->
            [action |-> "expire", target |-> "expired"]
      [] observed = "completed" /\ current = "exit_order_pending" ->
            [action |-> "transition", target |-> "liquidated"]
      [] observed = "failed"    /\ current = "exit_order_pending" ->
            [action |-> "transition", target |-> "exit_order_failed"]
      [] observed = "cancelled" /\ current = "exit_order_pending" ->
            [action |-> "transition", target |-> "exit_order_cancelled"]
      [] OTHER -> [action |-> "none", target |-> "none"]

\* C6: every lookup yields the canonical (action, target) of its pair; there are
\* exactly 8 pairs with a rule; a pair without a rule, in particular every pair
\* whose current status is confirmed, leaves the status unchanged.
C6_LookupIsCanonical ==
    /\ Cardinality({ p \in OrderStatus \X PositionLifecycleStatus :
                        FindSyncRule(p[1], p[2]) # << >> }) = 8
    /\ lastSync.observed # "none" =>
          /\ [action |-> lastSync.action, target |-> lastSync.target]
                = CanonicalRule(lastSync.observed, lastSync.current)
          /\ lastSync.matches = (IF lastSync.action = "none" THEN 0 ELSE 1)
          /\ lastSync.action = "none" =>
                (~lastSync.applied /\ lastSync.after = lastSync.before)
          /\ lastSync.current = "confirmed" => lastSync.action = "none"

\* C6 witness: a lookup for a confirmed position found no rule and changed nothing.
C6_Witness ==
    /\ lastSync.observed = "completed"
    /\ lastSync.current = "confirmed"
    /\ lastSync.action = "none"
    /\ lifecycleStatus = "confirmed"

(***************************************************************************)
(* PerformanceAggregator: src/types/position/performance.ts                *)
(***************************************************************************)

\* Bounds of the model.
MaxCalls == 2      \* calls of processPositionLiquidation in one behaviour
NumCallers == 2    \* callers that may have a call in flight
MaxFaults == 5     \* store operations that raise in one behaviour
MaxFolds == 3      \* calls in one behaviour of the serialised use without faults
MaxTicks == 1      \* times the clock moves on between two reads of one block

\* The periods, in the order of the array `periods`.
Periods == << "daily", "weekly", "monthly", "yearly", "overall" >>

PeriodSet == { Periods[i] : i \in 1..Len(Periods) }

(* ---- calendar arithmetic of Date (proleptic Gregorian, local time) ---- *)

\* Days from 1970-01-01 to the civil date y-m-d.
DaysFromCivil(y, m, d) ==
    LET yy  == IF m <= 2 THEN y - 1 ELSE y
        era == yy \div 400
        yoe == yy - era * 400
        mp  == IF m > 2 THEN m - 3 ELSE m + 9
        doy == (153 * mp + 2) \div 5 + d - 1
        doe == yoe * 365 + yoe \div 4 - yoe \div 100 + doy
    IN  era * 146097 + doe - 719468

\* The civil date [y, m, d] of a day number.
CivilFromDays(n) ==
    LET z   == n + 719468
        era == z \div 146097
        doe == z - era * 146097
        yoe == (doe - doe \div 1460 + doe \div 36524 - doe \div 146096) \div 365
        doy == doe - (365 * yoe + yoe \div 4 - yoe \div 100)
        mp  == (5 * doy + 2) \div 153
        d   == doy - (153 * mp + 2) \div 5 + 1
        m   == IF mp < 10 THEN mp + 3 ELSE mp - 9
    IN  [y |-> IF m <= 2 THEN yoe + era * 400 + 1 ELSE yoe + era * 400, m |-> m, d |-> d]

\* NaN, the value Date.UTC returns outside the range of Date and every numeric
\* getter of an Invalid Date returns: a number that is no year (years run from
\* -271821 to 275760), month, day, week number or day number.
NaN == 1000000000

\* The range of Date, in days from 1970-01-01: the time values run from
\* -8640000000000000 ms (-271821-04-20T00:00:00.000Z) to 8640000000000000 ms
\* (275760-09-13T00:00:00.000Z), the last day having its first instant only.
FirstDay == -100000000
LastDay == 100000000

\* Date.UTC(year, month, day), in days: a year argument from 0 to 99 stands for
\* 1900 + year; NaN for a day outside the range of Date.
DateUTC(y, m, d) ==
    LET n == DaysFromCivil(IF y >= 0 /\ y <= 99 THEN 1900 + y ELSE y, m, d)
    IN  IF n < FirstDay \/ n > LastDay THEN NaN ELSE n

\* Date.prototype.getDay: 0 = Sunday .. 6 = Saturday.
GetDay(date) == (DaysFromCivil(date.y, date.m, date.d) + 4) % 7

\* An Invalid Date, and the `undefined` start/end date of the overall record.
InvalidDate == [y |-> NaN, m |-> NaN, d |-> NaN]
NoDate == [y |-> 0, m |-> 0, d |-> 0]

\* getWeekNumber(date): d is the UTC date built by Date.UTC from the local
\* fields of `date`, moved to the Thursday of its Monday-based week; the result
\* counts the weeks from Date.UTC(d.getUTCFullYear(), 0, 1) to d. It is NaN when
\* d, the Thursday or the first of January of the Thursday's year is outside the
\* range of Date.
getWeekNumber(date) ==
    IF date = InvalidDate THEN NaN
    ELSE
    LET dn == DateUTC(date.y, date.m, date.d)
    IN  IF dn = NaN THEN NaN
        ELSE
        LET utcDay   == (dn + 4) % 7
            dayNum   == IF utcDay = 0 THEN 7 ELSE utcDay
            thursday == dn + 4 - dayNum
        IN  IF thursday < FirstDay \/ thursday > LastDay THEN NaN
            ELSE
            LET yearStart == DateUTC(CivilFromDays(thursday).y, 1, 1)
            IN  IF yearStart = NaN THEN NaN
                ELSE ((thursday - yearStart) + 1 + 6) \div 7

\* periodKeys[period]: the fields the template string prints (0 where the key has
\* no such field). The weekly key prints closeDate.getFullYear() and the week number.
PeriodKey(date, period) ==
    CASE period = "daily"   -> [y |-> date.y, m |-> date.m, d |-> date.d, w |-> 0]
      [] period = "weekly"  -> [y |-> date.y, m |-> 0, d |-> 0, w |-> getWeekNumber(date)]
      [] period = "monthly" -> [y |-> date.y, m |-> date.m, d |-> 0, w |-> 0]
      [] period = "yearly"  -> [y |-> date.y, m |-> 0, d |-> 0, w |-> 0]
      [] period = "overall" -> [y |-> 0, m |-> 0, d |-> 0, w |-> 0]

\* The civil date of the date after setHours(0, 0, 0, 0): local midnight of a
\* day before -271821-04-20 is before the first instant of Date, in UTC as in
\* America/Nuuk (whose local time is behind UTC), and the Date is Invalid.
StartOfDay(date) ==
    IF DaysFromCivil(date.y, date.m, date.d) < FirstDay THEN InvalidDate ELSE date

\* getPeriodStartDate(date, period), at 00:00:00.000 local time.
getPeriodStartDate(date, period) ==
    IF date = InvalidDate THEN InvalidDate
    ELSE
    CASE period = "daily"   -> StartOfDay(date)
      [] period = "weekly"  ->
            LET day  == GetDay(date)
                diff == date.d - day + (IF day = 0 THEN -6 ELSE 1)
            IN  StartOfDay(CivilFromDays(DaysFromCivil(date.y, date.m, 1) + diff - 1))
      [] period = "monthly" -> StartOfDay([y |-> date.y, m |-> date.m, d |-> 1])
      [] period = "yearly"  -> StartOfDay([y |-> date.y, m |-> 1, d |-> 1])
      [] OTHER              -> date

\* The time zones of the process: UTC, which has every local time of every day,
\* and America/Nuuk, where from 2024 on the clocks go from 23:00 to 00:00 in the
\* night after the Saturday before the last Sunday of March.
TimeZones == { "UTC", "America/Nuuk" }

\* The local time 23:59:59.999 of the date does not exist in the zone.
EndOfDaySkipped(zone, date) ==
    /\ zone = "America/Nuuk"
    /\ date.y >= 2024
    /\ date.m = 3
    /\ date.d >= 24
    /\ date.d <= 30
    /\ GetDay(date) = 6

\* The last day whose local time 23:59:59.999 is an instant of Date: the day
\* before the last in UTC; in America/Nuuk, an hour behind UTC in September, the
\* last instant is 23:00 of 275760-09-12 and the day is the one before that.
LastEndOfDay(zone) == IF zone = "America/Nuuk" THEN LastDay - 2 ELSE LastDay - 1

\* The civil date of the date after setHours(23, 59, 59, 999): a local time
\* after the last instant of Date makes the Date Invalid; a local time that does
\* not exist is moved on by the hour that was skipped, into the next day.
EndOfDay(date, zone) ==
    IF DaysFromCivil(date.y, date.m, date.d) > LastEndOfDay(zone)
      THEN InvalidDate
      ELSE IF EndOfDaySkipped(zone, date)
             THEN CivilFromDays(DaysFromCivil(date.y, date.m, date.d) + 1)
             ELSE date

\* getPeriodEndDate(date, period) in the time zone of the process.
getPeriodEndDate(date, period, zone) ==
    IF date = InvalidDate THEN InvalidDate
    ELSE
    CASE period = "daily"   -> EndOfDay(date, zone)
      [] period = "weekly"  ->
            LET day  == GetDay(date)
                diff == date.d - day + (IF day = 0 THEN 0 ELSE 7)
            IN  EndOfDay(CivilFromDays(DaysFromCivil(date.y, date.m, 1) + diff - 1), zone)
      [] period = "monthly" ->
            EndOfDay(CivilFromDays(DaysFromCivil(IF date.m = 12 THEN date.y + 1 ELSE date.y,
                                                 IF date.m = 12 THEN 1 ELSE date.m + 1, 1) - 1),
                     zone)
      [] period = "yearly"  -> EndOfDay([y |-> date.y, m |-> 12, d |-> 31], zone)
      [] OTHER              -> date

(* ---- the arithmetic of Number (IEEE 754 binary64) ---- *)

Abs(x) == IF x < 0 THEN -x ELSE x

\* Natural numbers of any size are sequences of limbs, least significant first,
\* without a zero top limb; zero is << >>.
LimbBase == 32768
LimbBits == 15

RECURSIVE BigTrim(_)
BigTrim(a) ==
    IF a = << >> THEN a
    ELSE IF a[Len(a)] = 0 THEN BigTrim(SubSeq(a, 1, Len(a) - 1)) ELSE a

\* A natural below 2^31 as limbs.
BigFromInt(n) ==
    IF n = 0 THEN << >>
    ELSE IF n < LimbBase THEN << n >>
    ELSE IF n < LimbBase * LimbBase THEN << n % LimbBase, n \div LimbBase >>
    ELSE << n % LimbBase, (n \div LimbBase) % LimbBase, n \div (LimbBase * LimbBase) >>

BigLimb(a, i) == IF i <= Len(a) THEN a[i] ELSE 0

RECURSIVE BigAddFrom(_, _, _, _)
BigAddFrom(a, b, i, carry) ==
    IF i > Len(a) /\ i > Len(b)
      THEN IF carry = 0 THEN << >> ELSE << carry >>
      ELSE LET t == BigLimb(a, i) + BigLimb(b, i) + carry
           IN  << t % LimbBase >> \o BigAddFrom(a, b, i + 1, t \div LimbBase)

BigAdd(a, b) == BigAddFrom(a, b, 1, 0)

RECURSIVE BigSubFrom(_, _, _, _)
BigSubFrom(a, b, i, borrow) ==
    IF i > Len(a) THEN << >>
    ELSE LET t == a[i] - BigLimb(b, i) - borrow
         IN  << IF t < 0 THEN t + LimbBase ELSE t >>
             \o BigSubFrom(a, b, i + 1, IF t < 0 THEN 1 ELSE 0)

\* a - b for a >= b.
BigSub(a, b) == BigTrim(BigSubFrom(a, b, 1, 0))

RECURSIVE BigCmpFrom(_, _, _)
BigCmpFrom(a, b, i) ==
    IF i = 0 THEN 0
    ELSE IF a[i] > b[i] THEN 1
    ELSE IF a[i] < b[i] THEN -1
    ELSE BigCmpFrom(a, b, i - 1)

\* The sign of a - b.
BigCmp(a, b) ==
    IF Len(a) > Len(b) THEN 1
    ELSE IF Len(a) < Len(b) THEN -1
    ELSE BigCmpFrom(a, b, Len(a))

RECURSIVE BigMulSmallFrom(_, _, _, _)
BigMulSmallFrom(a, k, i, carry) ==
    IF i > Len(a)
      THEN IF carry = 0 THEN << >> ELSE << carry >>
      ELSE LET t == a[i] * k + carry
           IN  << t % LimbBase >> \o BigMulSmallFrom(a, k, i + 1, t \div LimbBase)

\* a * k for 0 <= k <= LimbBase.
BigMulSmall(a, k) == IF k = 0 THEN << >> ELSE BigMulSmallFrom(a, k, 1, 0)

RECURSIVE BigMulFrom(_, _, _)
BigMulFrom(a, b, j) ==
    IF j > Len(b) THEN << >>
    ELSE BigAdd(BigMulSmall(a, b[j]), << 0 >> \o BigMulFrom(a, b, j + 1))

BigMul(a, b) ==
    IF a = << >> \/ b = << >> THEN << >>
    ELSE IF Len(b) = 1 THEN BigMulSmall(a, b[1])
    ELSE IF Len(a) = 1 THEN BigMulSmall(b, a[1])
    ELSE BigTrim(BigMulFrom(a, b, 1))

\* a * 2^k.
BigShl(a, k) ==
    IF a = << >> THEN a
    ELSE IF k = 0 THEN a
    ELSE IF k % LimbBits = 0 THEN [i \in 1..(k \div LimbBits) |-> 0] \o a
    ELSE [i \in 1..(k \div LimbBits) |-> 0] \o BigMulSmall(a, 2 ^ (k % LimbBits))

RECURSIVE BigDivSmallFrom(_, _, _, _)
BigDivSmallFrom(a, k, i, r) ==
    IF i = 0 THEN [q |-> << >>, r |-> r]
    ELSE LET t == r * LimbBase + a[i]
             rest == BigDivSmallFrom(a, k, i - 1, t % k)
         IN  [q |-> Append(rest.q, t \div k), r |-> rest.r]

\* Quotient and remainder of a by k, 0 < k <= LimbBase (the remainder an integer).
BigDivSmall(a, k) ==
    LET x == BigDivSmallFrom(a, k, Len(a), 0)
    IN  [q |-> BigTrim(x.q), r |-> x.r]

\* floor(a / 2^k).
BigShr(a, k) ==
    IF k \div LimbBits >= Len(a) THEN << >>
    ELSE IF k = 0 THEN a
    ELSE IF k % LimbBits = 0 THEN SubSeq(a, k \div LimbBits + 1, Len(a))
    ELSE BigDivSmall(SubSeq(a, k \div LimbBits + 1, Len(a)), 2 ^ (k % LimbBits)).q

\* a is a multiple of 2^k.
BigLowBitsZero(a, k) ==
    /\ \A i \in 1..(k \div LimbBits) : BigLimb(a, i) = 0
    /\ BigLimb(a, k \div LimbBits + 1) % (2 ^ (k % LimbBits)) = 0

RECURSIVE IntBitLen(_)
IntBitLen(n) == IF n = 0 THEN 0 ELSE 1 + IntBitLen(n \div 2)

\* The number of bits of a.
BigBitLen(a) ==
    IF a = << >> THEN 0 ELSE LimbBits * (Len(a) - 1) + IntBitLen(a[Len(a)])

RECURSIVE IntTrailingZeros(_)
IntTrailingZeros(n) == IF n % 2 = 1 THEN 0 ELSE 1 + IntTrailingZeros(n \div 2)

RECURSIVE BigTrailingZerosFrom(_, _)
BigTrailingZerosFrom(a, i) ==
    IF a[i] # 0 THEN LimbBits * (i - 1) + IntTrailingZeros(a[i])
    ELSE BigTrailingZerosFrom(a, i + 1)

\* The number of trailing zero bits of a # 0.
BigTrailingZeros(a) == BigTrailingZerosFrom(a, 1)

\* The largest q <= guess with q * b <= r.
RECURSIVE BigFit(_, _, _)
BigFit(r, b, guess) ==
    IF BigCmp(BigMulSmall(b, guess), r) > 0 THEN BigFit(r, b, guess - 1) ELSE guess

\* floor(r / b) for r < b * LimbBase, guessed from the two top limbs of r and the
\* top limb of b.
QuotientLimb(r, b) ==
    LET top == BigLimb(r, Len(b) + 1) * LimbBase + BigLimb(r, Len(b))
        guess == top \div b[Len(b)]
    IN  BigFit(r, b, IF guess >= LimbBase THEN LimbBase - 1 ELSE guess)

RECURSIVE BigDivModFrom(_, _, _, _)
BigDivModFrom(a, b, i, r) ==
    IF i = 0 THEN [q |-> << >>, r |-> r]
    ELSE LET cur == BigTrim(<< a[i] >> \o r)
             limb == QuotientLimb(cur, b)
             rest == BigDivModFrom(a, b, i - 1, BigSub(cur, BigMulSmall(b, limb)))
         IN  [q |-> Append(rest.q, limb), r |-> rest.r]

\* Quotient and remainder of a by b # 0 (long division, limb by limb, of the
\* operands scaled so that the top limb of the divisor has its top bit set).
BigDivMod(a, b) ==
    LET s == LimbBits - IntBitLen(b[Len(b)])
        sa == BigShl(a, s)
        x == BigDivModFrom(sa, BigShl(b, s), Len(sa), << >>)
    IN  [q |-> BigTrim(x.q), r |-> BigShr(x.r, s)]

\* A number is [s, m, e]: the value s * m * 2^e with s the sign (1 or -1), m a
\* natural and e an integer. A Number (a double) has m odd and below 2^53, so
\* that equal doubles are equal records; zero is NumZero. The range of the
\* exponent is not limited (no overflow to Infinity, no subnormals), and -0 is
\* not told apart from 0 (neither does ===).
NumZero == [s |-> 1, m |-> << >>, e |-> 0]

\* The number s * m * 2^e with the trailing zero bits of m moved to the exponent.
Canonical(s, m, e) ==
    IF m = << >> THEN NumZero
    ELSE IF m[1] % 2 = 1 THEN [s |-> s, m |-> m, e |-> e]
    ELSE LET tz == BigTrailingZeros(m)
         IN  [s |-> s, m |-> BigShr(m, tz), e |-> e + tz]

\* The double nearest to s * (m + f) * 2^e, where 0 <= f < 1 and f > 0 iff
\* sticky; m has at least 55 bits when sticky. Round to nearest, ties to even:
\* of the bits of m beyond the first 53, more than half a unit in the last place
\* rounds up and exactly half rounds to the even mantissa.
RoundToDouble(s, m, e, sticky) ==
    LET len == BigBitLen(m)
        drop == len - 53
        few == BigDivSmall(m, 2 ^ drop)
        half == 2 ^ (drop - 1)
        upFew == \/ few.r > half
                 \/ few.r = half /\ (sticky \/ few.q[1] % 2 = 1)
        withRoundBit == BigShr(m, drop - 1)
        kept == BigShr(withRoundBit, 1)
        roundBit == withRoundBit[1] % 2
        exactHalf == BigLowBitsZero(m, drop - 1) /\ ~sticky
        up == roundBit = 1 /\ (~exactHalf \/ kept[1] % 2 = 1)
    IN  IF drop <= 0 THEN Canonical(s, m, e)
        ELSE IF drop <= LimbBits
          THEN Canonical(s, IF upFew THEN BigAdd(few.q, << 1 >>) ELSE few.q, e + drop)
        ELSE Canonical(s, IF up THEN BigAdd(kept, << 1 >>) ELSE kept, e + drop)

\* The Number of an integer below 2^31 in magnitude.
Num(n) ==
    IF n = 0 THEN NumZero
    ELSE LET tz == IntTrailingZeros(Abs(n))
         IN  [s |-> IF n < 0 THEN -1 ELSE 1, m |-> BigFromInt(Abs(n) \div 2 ^ tz), e |-> tz]

ExactNeg(a) == [a EXCEPT !.s = -a.s]
ExactAbs(a) == [a EXCEPT !.s = 1]

\* a + b, a * b and the sign of a - b, without rounding.
ExactSum(a, b) ==
    LET e == IF a.e <= b.e THEN a.e ELSE b.e
        ma == BigShl(a.m, a.e - e)
        mb == BigShl(b.m, b.e - e)
    IN  IF a.s = b.s THEN [s |-> a.s, m |-> BigAdd(ma, mb), e |-> e]
        ELSE IF BigCmp(ma, mb) >= 0 THEN [s |-> a.s, m |-> BigSub(ma, mb), e |-> e]
        ELSE [s |-> b.s, m |-> BigSub(mb, ma), e |-> e]

ExactAdd(a, b) == LET x == ExactSum(a, b) IN Canonical(x.s, x.m, x.e)

ExactMul(a, b) == Canonical(a.s * b.s, BigMul(a.m, b.m), a.e + b.e)

ExactCmp(a, b) ==
    LET d == ExactAdd(a, ExactNeg(b))
    IN  IF d.m = << >> THEN 0 ELSE d.s

\* The operators +, * and / of Number: the exact result rounded to a double.
NumAdd(a, b) ==
    IF a.m = << >> THEN b
    ELSE IF b.m = << >> THEN a
    ELSE LET x == ExactSum(a, b) IN RoundToDouble(x.s, x.m, x.e, FALSE)

NumMul(a, b) ==
    IF a.m = << >> \/ b.m = << >> THEN NumZero
    ELSE IF b.m = << 1 >> THEN [s |-> a.s * b.s, m |-> a.m, e |-> a.e + b.e]
    ELSE IF a.m = << 1 >> THEN [s |-> a.s * b.s, m |-> b.m, e |-> a.e + b.e]
    ELSE RoundToDouble(a.s * b.s, BigMul(a.m, b.m), a.e + b.e, FALSE)

\* a / b for b # 0 (every division of the source has a non-zero divisor).
NumDiv(a, b) ==
    LET need == 55 + BigBitLen(b.m) - BigBitLen(a.m)
        k == IF need > 0 THEN need ELSE 0
        dm == IF Len(b.m) = 1 THEN BigDivSmall(BigShl(a.m, k), b.m[1])
              ELSE BigDivMod(BigShl(a.m, k), b.m)
        sticky == IF Len(b.m) = 1 THEN dm.r # 0 ELSE dm.r # << >>
    IN  IF a.m = << >> THEN NumZero
        ELSE IF b.m = << 1 >> THEN [s |-> a.s * b.s, m |-> a.m, e |-> a.e - b.e]
        ELSE RoundToDouble(a.s * b.s, dm.q, a.e - b.e - k, sticky)

\* The Number a decimal literal denotes: the double nearest to n / d.
Decimal(n, d) == NumDiv(Num(n), Num(d))

\* Math.abs, Math.max, Math.min.
MathMax(a, b) == IF a >= b THEN a ELSE b
MathMin(a, b) == IF a <= b THEN a ELSE b

\* liquidationInfo.fee || 0, the optional fee being << >> when absent.
FeeOrZero(info) == IF info.fee = << >> THEN 0 ELSE info.fee[1]

\* calculateInitialStats(liquidationInfo).
calculateInitialStats(info) ==
    LET isWin == info.realizedPL > 0
        investment == info.openPrice * info.amount
    IN  [ totalTrades     |-> 1,
          winCount        |-> IF isWin THEN 1 ELSE 0,
          loseCount       |-> IF isWin THEN 0 ELSE 1,
          winRate         |-> IF isWin THEN Num(100) ELSE Num(0),
          totalRealizedPL |-> info.realizedPL,
          averagePL       |-> Num(info.realizedPL),
          averagePLRatio  |-> info.plRatio,
          maxProfit       |-> IF isWin THEN info.realizedPL ELSE 0,
          maxLoss         |-> IF isWin THEN 0 ELSE info.realizedPL,
          totalFee        |-> FeeOrZero(info),
          totalInvestment |-> investment,
          totalProfit     |-> IF isWin THEN info.realizedPL ELSE 0,
          totalLoss       |-> IF isWin THEN 0 ELSE Abs(info.realizedPL),
          profitLossRatio |-> << >> ]

\* calculateUpdatedStats(existingStats, liquidationInfo).
calculateUpdatedStats(existingStats, info) ==
    LET isWin == info.realizedPL > 0
        investment == info.openPrice * info.amount
        totalTrades == existingStats.totalTrades + 1
        winCount == existingStats.winCount + (IF isWin THEN 1 ELSE 0)
        loseCount == existingStats.loseCount + (IF isWin THEN 0 ELSE 1)
        totalRealizedPL == existingStats.totalRealizedPL + info.realizedPL
        totalFee == existingStats.totalFee + FeeOrZero(info)
        totalInvestment == existingStats.totalInvestment + investment
        totalProfit == existingStats.totalProfit + (IF isWin THEN info.realizedPL ELSE 0)
        totalLoss == existingStats.totalLoss + (IF isWin THEN 0 ELSE Abs(info.realizedPL))
        winRate == NumMul(NumDiv(Num(winCount), Num(totalTrades)), Num(100))
        averagePL == NumDiv(Num(totalRealizedPL), Num(totalTrades))
        averagePLRatio ==
            NumDiv(NumAdd(NumMul(existingStats.averagePLRatio,
                                 Num(existingStats.totalTrades)),
                          info.plRatio),
                   Num(totalTrades))
        maxProfit == MathMax(existingStats.maxProfit, IF isWin THEN info.realizedPL ELSE 0)
        maxLoss == MathMin(existingStats.maxLoss, IF isWin THEN 0 ELSE info.realizedPL)
        avgProfit == IF winCount > 0 THEN NumDiv(Num(totalProfit), Num(winCount))
                     ELSE Num(0)
        avgLoss == IF loseCount > 0 THEN NumDiv(Num(totalLoss), Num(loseCount))
                   ELSE Num(0)
        profitLossRatio == IF avgLoss # NumZero THEN << NumDiv(avgProfit, avgLoss) >>
                           ELSE << >>
    IN  [ totalTrades     |-> totalTrades,
          winCount        |-> winCount,
          loseCount       |-> loseCount,
          winRate         |-> winRate,
          totalRealizedPL |-> totalRealizedPL,
          averagePL       |-> averagePL,
          averagePLRatio  |-> averagePLRatio,
          maxProfit       |-> maxProfit,
          maxLoss         |-> maxLoss,
          totalFee        |-> totalFee,
          totalInvestment |-> totalInvestment,
          totalProfit     |-> totalProfit,
          totalLoss       |-> totalLoss,
          profitLossRatio |-> profitLossRatio ]

(* ---- the inputs ---- *)

\* A PositionLiquidationInfo. realizedPL, openPrice, amount and fee are whole
\* numbers (integers of the model), plRatio is a Number. closeKind tells what liquidationInfo.closeDate is:
\* "valid" (a Date, or a timestamp with numeric seconds), "nan" (a value whose
\* .seconds is not a number: the conversion yields an Invalid Date) or "missing"
\* (null or undefined: reading .seconds raises a TypeError).
LiquidationInfo(user, position, kind, date, open, amount, fee, pl, ratio) ==
    [ userId |-> user, positionId |-> position, closeKind |-> kind, closeDate |-> date,
      openPrice |-> open, amount |-> amount, fee |-> fee,
      realizedPL |-> pl, plRatio |-> ratio ]

\* The winning trade of the documentation example; 2025-01-01 is a Wednesday.
InfoWin ==
    LiquidationInfo("user123", "pos456", "valid", [y |-> 2025, m |-> 1, d |-> 1],
                    70000, 10, << 1000 >>, 49000, Decimal(714, 100))

\* A losing trade closed the day before, in the same Monday-based week.
InfoLoss ==
    LiquidationInfo("user123", "pos457", "valid", [y |-> 2024, m |-> 12, d |-> 31],
                    50000, 5, << 500 >>, -10000, Num(-2))

\* A trade whose closeDate is null.
InfoNoDate ==
    LiquidationInfo("user123", "pos458", "missing", NoDate,
                    50000, 5, << >>, 0, Num(0))

\* A trade whose closeDate is neither a Date nor a timestamp (an ISO string).
InfoBadDate ==
    LiquidationInfo("user123", "pos459", "nan", InvalidDate,
                    50000, 5, << >>, 0, Num(0))

\* A break-even trade without a fee, closed on Sunday 2025-01-05: the last day of
\* the Monday-based week of 2025-01-01.
InfoEven ==
    LiquidationInfo("user123", "pos460", "valid", [y |-> 2025, m |-> 1, d |-> 5],
                    30000, 2, << >>, 0, Num(0))

\* A winning trade of another user on 2025-01-01.
InfoOther ==
    LiquidationInfo("user999", "pos461", "valid", [y |-> 2025, m |-> 1, d |-> 1],
                    20000, 3, << 300 >>, 6000, Num(10))

\* A smaller loss closed on Monday 2024-01-01, the first day of the first week
\* of 2024.
InfoFirstWeek ==
    LiquidationInfo("user123", "pos462", "valid", [y |-> 2024, m |-> 1, d |-> 1],
                    40000, 1, << 200 >>, -2999, Decimal(-74975, 10000))

\* A larger win on 2025-01-01.
InfoBigWin ==
    LiquidationInfo("user123", "pos463", "valid", [y |-> 2025, m |-> 1, d |-> 1],
                    90000, 4, << 2000 >>, 90000, Num(25))

\* A winning trade closed on Saturday 2024-03-30, the day before the last Sunday
\* of March.
InfoSpring ==
    LiquidationInfo("user123", "pos464", "valid", [y |-> 2024, m |-> 3, d |-> 30],
                    20000, 3, << 300 >>, 6000, Num(10))

\* A winning trade closed on 0100-01-01, a Friday whose week has its Thursday
\* in the year 99.
InfoCentury ==
    LiquidationInfo("user123", "pos465", "valid", [y |-> 100, m |-> 1, d |-> 1],
                    20000, 3, << 300 >>, 6000, Num(10))

\* The inputs of the calls against the store that may raise.
Infos == { InfoWin, InfoNoDate }

\* The inputs of the calls that are folded into statistics.
TradeInfos == { InfoWin, InfoLoss }

\* The inputs of the calls made one after the other against a store that does
\* not fail.
FoldInfos == { InfoWin, InfoLoss, InfoEven, InfoOther, InfoFirstWeek, InfoBigWin }

\* The inputs of the calls made in a process whose time zone is America/Nuuk.
LocalInfos == { InfoWin, InfoSpring, InfoCentury, InfoBadDate }

Callers == 1..NumCallers

(* ---- processPositionLiquidation ---- *)

\* collectionNames[period]: the default `${period}_performance`, named by its period.
CollectionName(period) == period

\* docId = `${liquidationInfo.userId}_${periodKey}`.
DocId(info, period) == [userId |-> info.userId, key |-> PeriodKey(info.closeDate, period)]

\* The store's key of a document.
DocPath(info, period) == << CollectionName(period), DocId(info, period) >>

\* The result object as the function creates it.
InitialResult ==
    [ success |-> TRUE, updatedPeriods |-> << >>, createdRecords |-> << >>,
      updatedRecords |-> << >>, error |-> "" ]

\* Where a call that is in flight stands: "get", crud.get is issued; "read", the
\* store has read the document and the promise of the get is not settled yet;
\* "write", crud.update or crud.create is issued; "written", the store has
\* applied the write and the promise of the write is not settled yet.
InFlightStates == { "get", "read", "write", "written" }

\* A caller with no call in flight. `existing` is what the get found (<< >> for
\* null), `data` the argument of the write that is issued.
IdleCall ==
    [ pc |-> "idle", info |-> InfoNoDate, idx |-> 0, existing |-> << >>, data |-> << >>,
      result |-> InitialResult, ops |-> << >>, failed |-> {} ]

\* A new record shaped as the else-branch shapes it, holding the given stats.
NewRecordWith(info, period, zone, createdAt, updatedAt, stats) ==
    [ userId    |-> info.userId,
      period    |-> period,
      periodKey |-> PeriodKey(info.closeDate, period),
      startDate |-> IF period = "overall" THEN NoDate
                    ELSE getPeriodStartDate(info.closeDate, period),
      endDate   |-> IF period = "overall" THEN NoDate
                    ELSE getPeriodEndDate(info.closeDate, period, zone),
      stats     |-> stats,
      liquidatedPositionIds |-> << info.positionId >>,
      createdAt |-> createdAt,
      updatedAt |-> updatedAt ]

\* The first trade had a loss stored in totalLoss with its sign.
NewRecord_signedTotalLoss(info, period, zone, createdAt, updatedAt) ==
    NewRecordWith(info, period, zone, createdAt, updatedAt,
                  [calculateInitialStats(info) EXCEPT
                      !.totalLoss = IF info.realizedPL > 0 THEN 0 ELSE info.realizedPL])

\* The first trade had a loss stored in maxLoss as a magnitude, like totalLoss.
NewRecord_maxLossAsMagnitude(info, period, zone, createdAt, updatedAt) ==
    NewRecordWith(info, period, zone, createdAt, updatedAt,
                  [calculateInitialStats(info) EXCEPT
                      !.maxLoss = IF info.realizedPL > 0 THEN 0 ELSE Abs(info.realizedPL)])

\* The first trade had a break-even trade counted as a win (isWin = realizedPL >= 0).
NewRecord_evenIsWin(info, period, zone, createdAt, updatedAt) ==
    LET isWin == info.realizedPL >= 0
    IN  NewRecordWith(info, period, zone, createdAt, updatedAt,
                      [calculateInitialStats(info) EXCEPT
                          !.winCount = IF isWin THEN 1 ELSE 0,
                          !.loseCount = IF isWin THEN 0 ELSE 1,
                          !.winRate = IF isWin THEN Num(100) ELSE Num(0)])

\* The record `newRecord` of the else-branch, in the time zone of the process;
\* createdAt and updatedAt are two reads of the clock, one after the other.
NewRecord(info, period, zone, createdAt, updatedAt) ==
    [ userId    |-> info.userId,
      period    |-> period,
      periodKey |-> PeriodKey(info.closeDate, period),
      startDate |-> IF period = "overall" THEN NoDate
                    ELSE getPeriodStartDate(info.closeDate, period),
      endDate   |-> IF period = "overall" THEN NoDate
                    ELSE getPeriodEndDate(info.closeDate, period, zone),
      stats     |-> calculateInitialStats(info),
      liquidatedPositionIds |-> << info.positionId >>,
      createdAt |-> createdAt,
      updatedAt |-> updatedAt ]

\* The update had the merge skipped a position id the record already lists.
UpdateData_deduplicates(existingRecord, info, time) ==
    IF \E i \in 1..Len(existingRecord.liquidatedPositionIds) :
          existingRecord.liquidatedPositionIds[i] = info.positionId
      THEN [ stats     |-> existingRecord.stats,
             liquidatedPositionIds |-> existingRecord.liquidatedPositionIds,
             updatedAt |-> time ]
      ELSE [ stats     |-> calculateUpdatedStats(existingRecord.stats, info),
             liquidatedPositionIds |-> Append(existingRecord.liquidatedPositionIds,
                                              info.positionId),
             updatedAt |-> time ]

\* The merge had a break-even trade counted neither as a win nor as a loss.
UpdateData_evenIsNeither(existingRecord, info, time) ==
    [ stats     |-> [calculateUpdatedStats(existingRecord.stats, info) EXCEPT
                        !.loseCount = existingRecord.stats.loseCount
                                      + (IF info.realizedPL < 0 THEN 1 ELSE 0)],
      liquidatedPositionIds |-> Append(existingRecord.liquidatedPositionIds, info.positionId),
      updatedAt |-> time ]

\* The merge had the new total divided by the number of trades before the merge.
UpdateData_dividesByOldCount(existingRecord, info, time) ==
    [ stats     |-> [calculateUpdatedStats(existingRecord.stats, info) EXCEPT
                        !.averagePL = NumDiv(Num(existingRecord.stats.totalRealizedPL
                                                 + info.realizedPL),
                                             Num(existingRecord.stats.totalTrades))],
      liquidatedPositionIds |-> Append(existingRecord.liquidatedPositionIds, info.positionId),
      updatedAt |-> time ]

\* The merge had a loss added to totalLoss with its sign.
UpdateData_signedTotalLoss(existingRecord, info, time) ==
    [ stats     |-> [calculateUpdatedStats(existingRecord.stats, info) EXCEPT
                        !.totalLoss = existingRecord.stats.totalLoss
                                      + (IF info.realizedPL > 0 THEN 0
                                         ELSE info.realizedPL)],
      liquidatedPositionIds |-> Append(existingRecord.liquidatedPositionIds, info.positionId),
      updatedAt |-> time ]

\* The merge had profitLossRatio left undefined for a record without a win.
UpdateData_ratioNeedsWin(existingRecord, info, time) ==
    LET st == calculateUpdatedStats(existingRecord.stats, info)
    IN  [ stats     |-> [st EXCEPT !.profitLossRatio =
                                      IF st.winCount = 0 THEN << >> ELSE @],
          liquidatedPositionIds |-> Append(existingRecord.liquidatedPositionIds,
                                           info.positionId),
          updatedAt |-> time ]

\* The merge had profitLossRatio set to 0 where the average loss is 0.
UpdateData_ratioAlwaysDefined(existingRecord, info, time) ==
    LET st == calculateUpdatedStats(existingRecord.stats, info)
    IN  [ stats     |-> [st EXCEPT !.profitLossRatio =
                                      IF @ = << >> THEN << NumZero >> ELSE @],
          liquidatedPositionIds |-> Append(existingRecord.liquidatedPositionIds,
                                           info.positionId),
          updatedAt |-> time ]

\* The merge had maxLoss set to the latest loss instead of the largest.
UpdateData_lastLossWins(existingRecord, info, time) ==
    [ stats     |-> [calculateUpdatedStats(existingRecord.stats, info) EXCEPT
                        !.maxLoss = IF info.realizedPL > 0
                                      THEN existingRecord.stats.maxLoss
                                      ELSE info.realizedPL],
      liquidatedPositionIds |-> Append(existingRecord.liquidatedPositionIds, info.positionId),
      updatedAt |-> time ]

\* The merge had the new position id put in front of the list.
UpdateData_prependsId(existingRecord, info, time) ==
    [ stats     |-> calculateUpdatedStats(existingRecord.stats, info),
      liquidatedPositionIds |-> << info.positionId >> \o existingRecord.liquidatedPositionIds,
      updatedAt |-> time ]

\* The update had createdAt stamped again along with updatedAt.
UpdateData_restampsCreatedAt(existingRecord, info, time) ==
    [ stats     |-> calculateUpdatedStats(existingRecord.stats, info),
      liquidatedPositionIds |-> Append(existingRecord.liquidatedPositionIds, info.positionId),
      createdAt |-> time,
      updatedAt |-> time ]

\* The partial record passed to crud.update.
UpdateData(existingRecord, info, time) ==
    [ stats     |-> calculateUpdatedStats(existingRecord.stats, info),
      liquidatedPositionIds |-> Append(existingRecord.liquidatedPositionIds, info.positionId),
      updatedAt |-> time ]

\* crud.update had the store keep the list it holds and merge the other fields.
ShallowMerge_keepsStoredList(doc, data) ==
    IF "liquidatedPositionIds" \in DOMAIN doc
      THEN [ f \in DOMAIN data \ {"liquidatedPositionIds"} |-> data[f] ] @@ doc
      ELSE data @@ doc

\* crud.update: a shallow merge of `data` into the stored document, { ...existing, ...data }.
ShallowMerge(doc, data) == data @@ doc

\* What crud.get finds under a path: << >> for null, else the record.
StoreGet(path) == IF path \in DOMAIN store THEN << store[path] >> ELSE << >>

PerfInit ==
    /\ store = << >>
    /\ call = [p \in Callers |-> IdleCall]
    /\ returned = << >>
    /\ now = 0
    /\ started = 0

\* The loop had a failed period ended it: `return result` after the first period
\* whose get or write raised.
NextPeriod_stopsAtFailure(p, c) ==
    IF c.idx = Len(Periods) \/ Periods[c.idx] \in c.failed
      THEN /\ call' = [call EXCEPT ![p] = [c EXCEPT !.pc = "done"]]
           /\ returned' = Append(returned, [caller |-> p, info |-> c.info,
                                            result |-> c.result, failed |-> c.failed])
      ELSE /\ call' = [call EXCEPT ![p] = [c EXCEPT !.pc = "get", !.idx = c.idx + 1]]
           /\ UNCHANGED returned

\* The end of one iteration of `for (const period of periods)`: the next period,
\* or `return result` after the last.
NextPeriod(p, c) ==
    IF c.idx = Len(Periods)
      THEN /\ call' = [call EXCEPT ![p] = [c EXCEPT !.pc = "done"]]
           /\ returned' = Append(returned, [caller |-> p, info |-> c.info,
                                            result |-> c.result, failed |-> c.failed])
      ELSE /\ call' = [call EXCEPT ![p] = [c EXCEPT !.pc = "get", !.idx = c.idx + 1]]
           /\ UNCHANGED returned

\* The function had no outer try/catch: the error leaves the call.
OuterCatch_rethrows(result, message) == [pc |-> "raised", result |-> result]

\* The outer catch: result.success = false, result.error = the error's message,
\* and the function goes on to `return result`.
OuterCatch(result, message) ==
    [pc |-> "done", result |-> [result EXCEPT !.success = FALSE, !.error = message]]

\* A call processPositionLiquidation(info, config) up to the first await: the
\* result object, the conversion of closeDate, the period keys and the get of
\* the first period. A null closeDate raises inside the outer try (reading
\* .seconds of null).
StartWithin(p, info, limit) ==
    /\ call[p].pc \in {"idle", "done"}
    /\ started < limit
    /\ started' = started + 1
    /\ now' = now + 1
    /\ IF info.closeKind = "missing"
         THEN LET out == OuterCatch(InitialResult, "Cannot read properties of null")
              IN  /\ call' = [call EXCEPT ![p] =
                                 [IdleCall EXCEPT !.pc = out.pc, !.info = info,
                                                  !.result = out.result]]
                  /\ returned' = IF out.pc = "done"
                                   THEN Append(returned, [caller |-> p, info |-> info,
                                                          result |-> out.result,
                                                          failed |-> {}])
                                   ELSE returned
         ELSE /\ call' = [call EXCEPT ![p] =
                             [IdleCall EXCEPT !.pc = "get", !.info = info, !.idx = 1]]
              /\ UNCHANGED returned
    /\ UNCHANGED <<store, lifecycleVars>>

Start(p, info) == StartWithin(p, info, MaxCalls)

\* A call made while no other call is in flight.
StartSequential(p, info) ==
    /\ p = 1
    /\ \A q \in Callers : call[q].pc \in {"idle", "done"}
    /\ Start(p, info)

\* A call of the serialised use: made after the previous call returned.
StartFold(p, info) ==
    /\ p = 1
    /\ \A q \in Callers : call[q].pc \in {"idle", "done"}
    /\ StartWithin(p, info, MaxFolds)

\* The store serves the crud.get(collectionName, docId) that is issued: it reads
\* the stored record or null.
StoreReads(p) ==
    LET c == call[p]
        period == Periods[c.idx]
    IN  /\ c.pc = "get"
        /\ call' = [call EXCEPT ![p] =
              [c EXCEPT !.pc = "read", !.existing = StoreGet(DocPath(c.info, period))]]
        /\ UNCHANGED <<store, returned, now, started, lifecycleVars>>

\* `await crud.get(...)` returns what the store read. The call builds the
\* argument of the write, reading the clock as it does: the merged stats, the
\* extended list and updatedAt when the get found a record, a new record
\* otherwise, whose createdAt and updatedAt are two reads of the clock, `tick`
\* apart; and it issues crud.update or crud.create.
GetReturns(p, tick, zone) ==
    LET c == call[p]
        period == Periods[c.idx]
        found == c.existing
        data == IF found # << >>
                  THEN UpdateData(found[1], c.info, now)
                  ELSE NewRecord(c.info, period, zone, now, now + tick)
    IN  /\ c.pc = "read"
        /\ zone \in TimeZones
        /\ tick > 0 => (found = << >> /\ now - started < MaxTicks)
        /\ now' = now + tick
        /\ call' = [call EXCEPT ![p] =
              [c EXCEPT !.pc = "write", !.data = << data >>,
                        !.ops = Append(@, [op |-> "get", period |-> period,
                                           outcome |-> IF found = << >> THEN "null"
                                                       ELSE "found"])]]
        /\ UNCHANGED <<store, returned, started, lifecycleVars>>

RECURSIVE SumFailed(_)
SumFailed(rs) == IF rs = << >> THEN 0 ELSE Cardinality(Head(rs).failed) + SumFailed(Tail(rs))

\* The store operations that have raised so far.
Faults ==
    LET inFlight == { p \in Callers : call[p].pc \in InFlightStates }
        RECURSIVE Sum(_)
        Sum(S) == IF S = {} THEN 0
                  ELSE LET p == CHOOSE q \in S : TRUE
                       IN  Cardinality(call[p].failed) + Sum(S \ {p})
    IN  SumFailed(returned) + Sum(inFlight)

\* `await crud.get(...)` raises: the inner catch logs it and the loop goes on.
GetRaises(p) ==
    LET c == call[p]
        period == Periods[c.idx]
    IN  /\ c.pc = "get"
        /\ Faults < MaxFaults
        /\ NextPeriod(p, [c EXCEPT !.failed = @ \cup {period},
                                   !.ops = Append(@, [op |-> "get", period |-> period,
                                                      outcome |-> "raised"])])
        /\ UNCHANGED <<store, now, started, lifecycleVars>>

\* The store had the update merge the event into the document as it is at the
\* time of the write (a transactional read-modify-write) instead of storing what
\* the call computed from the record its get returned.
StoreWrites_transactional(p) ==
    LET c == call[p]
        period == Periods[c.idx]
        path == DocPath(c.info, period)
    IN  /\ c.pc = "write"
        /\ store' = IF path \in DOMAIN store
                      THEN (path :> ShallowMerge(store[path],
                                                 UpdateData(store[path], c.info,
                                                            c.data[1].updatedAt)))
                           @@ store
                      ELSE (path :> c.data[1]) @@ store
        /\ call' = [call EXCEPT ![p] = [c EXCEPT !.pc = "written"]]
        /\ UNCHANGED <<returned, now, started, lifecycleVars>>

\* The store applies the write that is issued: crud.update merges the data into
\* the document it holds, crud.create stores the new record under the id.
StoreWrites(p) ==
    LET c == call[p]
        period == Periods[c.idx]
        path == DocPath(c.info, period)
    IN  /\ c.pc = "write"
        /\ store' = IF c.existing # << >>
                      THEN (path :> ShallowMerge(IF path \in DOMAIN store THEN store[path]
                                                 ELSE << >>,
                                                 c.data[1]))
                           @@ store
                      ELSE (path :> c.data[1]) @@ store
        /\ call' = [call EXCEPT ![p] = [c EXCEPT !.pc = "written"]]
        /\ UNCHANGED <<returned, now, started, lifecycleVars>>

\* `await crud.update(...)` or `await crud.create(...)` returns: the pushes to
\* updatedRecords or createdRecords and to updatedPeriods, then the next period.
WriteReturns(p) ==
    LET c == call[p]
        period == Periods[c.idx]
        entry == << period, DocId(c.info, period) >>
        isUpdate == c.existing # << >>
        res == IF isUpdate
                 THEN [c.result EXCEPT !.updatedRecords = Append(@, entry),
                                        !.updatedPeriods = Append(@, period)]
                 ELSE [c.result EXCEPT !.createdRecords = Append(@, entry),
                                        !.updatedPeriods = Append(@, period)]
    IN  /\ c.pc = "written"
        /\ NextPeriod(p, [c EXCEPT !.result = res, !.existing = << >>, !.data = << >>,
                                   !.ops = Append(@, [op |-> IF isUpdate THEN "update"
                                                             ELSE "create",
                                                      period |-> period,
                                                      outcome |-> "ok"])])
        /\ UNCHANGED <<store, now, started, lifecycleVars>>

\* The write raises, with the push to updatedPeriods placed where it runs all
\* the same (after the inner try/catch).
WriteRaises_stillReports(p) ==
    LET c == call[p]
        period == Periods[c.idx]
        isUpdate == c.existing # << >>
    IN  /\ c.pc = "write"
        /\ Faults < MaxFaults
        /\ NextPeriod(p, [c EXCEPT !.failed = @ \cup {period},
                                   !.existing = << >>, !.data = << >>,
                                   !.result = [@ EXCEPT !.updatedPeriods = Append(@, period)],
                                   !.ops = Append(@, [op |-> IF isUpdate THEN "update"
                                                             ELSE "create",
                                                      period |-> period,
                                                      outcome |-> "raised"])])
        /\ UNCHANGED <<store, now, started, lifecycleVars>>

\* The write raises, with the push of the 'period:docId' entry placed before
\* the awaited write.
WriteRaises_recordsEntry(p) ==
    LET c == call[p]
        period == Periods[c.idx]
        entry == << period, DocId(c.info, period) >>
        isUpdate == c.existing # << >>
    IN  /\ c.pc = "write"
        /\ Faults < MaxFaults
        /\ NextPeriod(p, [c EXCEPT !.failed = @ \cup {period},
                                   !.existing = << >>, !.data = << >>,
                                   !.result = IF isUpdate
                                                THEN [@ EXCEPT !.updatedRecords =
                                                                  Append(@, entry)]
                                                ELSE [@ EXCEPT !.createdRecords =
                                                                  Append(@, entry)],
                                   !.ops = Append(@, [op |-> IF isUpdate THEN "update"
                                                             ELSE "create",
                                                      period |-> period,
                                                      outcome |-> "raised"])])
        /\ UNCHANGED <<store, now, started, lifecycleVars>>

\* `await crud.update(...)` or `await crud.create(...)` raises, the store having
\* applied nothing: nothing is pushed, the inner catch logs it and the loop goes on.
WriteRaises(p) ==
    LET c == call[p]
        period == Periods[c.idx]
        isUpdate == c.existing # << >>
    IN  /\ c.pc = "write"
        /\ Faults < MaxFaults
        /\ NextPeriod(p, [c EXCEPT !.failed = @ \cup {period},
                                   !.existing = << >>, !.data = << >>,
                                   !.ops = Append(@, [op |-> IF isUpdate THEN "update"
                                                             ELSE "create",
                                                      period |-> period,
                                                      outcome |-> "raised"])])
        /\ UNCHANGED <<store, now, started, lifecycleVars>>

\* Sequential use: one caller, each call made after the previous one returned,
\* in a process whose time zone is UTC and whose clock stands still within a
\* synchronous block.
Next ==
    \/ \E p \in Callers, info \in Infos : StartSequential(p, info)
    \/ \E p \in Callers : StoreReads(p)
    \/ \E p \in Callers : GetReturns(p, 0, "UTC")
    \/ \E p \in Callers : GetRaises(p)
    \/ \E p \in Callers : StoreWrites(p)
    \/ \E p \in Callers : WriteReturns(p)
    \/ \E p \in Callers : WriteRaises(p)

\* The callers with a call between its first get and its return.
Racing == { q \in Callers : call[q].pc \in InFlightStates }

\* Calls are made in pairs: the first call of a pair while no call is in flight,
\* the second at any time after it, at the latest when the first has returned.
\* The callers being interchangeable, the lowest-numbered caller without a call
\* in flight makes the call.
StartConcurrent(p, info) ==
    /\ Cardinality(Racing) <= 1
    /\ started % 2 = 0 => Racing = {}
    /\ \A q \in Callers : q < p => q \in Racing
    /\ Start(p, info)

\* Concurrent use: pairs of calls in flight at once, interleaved at their awaits
\* and at the store.
ConcurrentNext ==
    \/ \E p \in Callers, info \in TradeInfos : StartConcurrent(p, info)
    \/ \E p \in Callers : StoreReads(p)
    \/ \E p \in Callers : GetReturns(p, 0, "UTC")
    \/ \E p \in Callers : StoreWrites(p)
    \/ \E p \in Callers : WriteReturns(p)

\* A call that races with the calls before it: it is made before any call has
\* returned.
StartRacing(p, info) ==
    /\ returned = << >>
    /\ StartConcurrent(p, info)

\* A get or a write raises in a call none of whose operations has raised yet.
GetRaisesOnce(p) == call[p].failed = {} /\ GetRaises(p)
WriteRaisesOnce(p) == call[p].failed = {} /\ WriteRaises(p)

\* Concurrent use against a store that may raise: a pair of calls in flight at
\* once, one get or write of each raising.
FaultyConcurrentNext ==
    \/ \E p \in Callers, info \in TradeInfos : StartRacing(p, info)
    \/ \E p \in Callers : StoreReads(p)
    \/ \E p \in Callers : GetReturns(p, 0, "UTC")
    \/ \E p \in Callers : GetRaisesOnce(p)
    \/ \E p \in Callers : StoreWrites(p)
    \/ \E p \in Callers : WriteReturns(p)
    \/ \E p \in Callers : WriteRaisesOnce(p)

\* Serialised use against a store that does not fail: each call is made after
\* the previous one returned.
SequentialNext ==
    \/ \E p \in Callers, info \in FoldInfos : StartFold(p, info)
    \/ \E p \in Callers : StoreReads(p)
    \/ \E p \in Callers : GetReturns(p, 0, "UTC")
    \/ \E p \in Callers : StoreWrites(p)
    \/ \E p \in Callers : WriteReturns(p)

\* Use, one call after the other, in a process whose time zone is America/Nuuk
\* and whose clock may move on between the two reads of one synchronous block.
LocalTimeNext ==
    \/ \E p \in Callers, info \in LocalInfos : StartSequential(p, info)
    \/ \E p \in Callers : StoreReads(p)
    \/ \E p \in Callers, tick \in 0..1 : GetReturns(p, tick, "America/Nuuk")
    \/ \E p \in Callers : StoreWrites(p)
    \/ \E p \in Callers : WriteReturns(p)

\* The lifecycle variables of the specifications that do not move a position.
LifecycleIdle ==
    /\ AuditInit
    /\ lifecycleStatus = "entry_order_pending"
    /\ lastCheck = NoCheck
    /\ lastMove = NoMove
    /\ lastSync = NoSync

Init == LifecycleIdle /\ PerfInit

Spec == Init /\ [][Next]_vars

TransitionCheckStart == TransitionCheckInit /\ PerfInit

TransitionCheckSpec == TransitionCheckStart /\ [][TransitionCheckNext]_vars

LifecycleStart == LifecycleInit /\ PerfInit

LifecycleSpec == LifecycleStart /\ [][LifecycleNext]_vars

ConcurrentSpec == Init /\ [][ConcurrentNext]_vars

SequentialSpec == Init /\ [][SequentialNext]_vars

FaultyConcurrentSpec == Init /\ [][FaultyConcurrentNext]_vars

ReconcileSpec == LifecycleStart /\ [][ReconcileNext]_vars

LogSpec == Init /\ [][LogNext]_vars

LocalTimeSpec == Init /\ [][LocalTimeNext]_vars


(***************************************************************************)
(* Aggregator claims                                                       *)
(***************************************************************************)

\* The operations of a log that are gets.
GetsOf(ops) == SelectSeq(ops, LAMBDA o : o.op = "get")

\* The periods of `periods` that are not in F, in processing order.
PeriodsNotIn(F) == SelectSeq(Periods, LAMBDA x : x \notin F)

\* The periods named by a list of 'period:docId' entries.
EntryPeriods(entries) == { entries[i][1] : i \in 1..Len(entries) }

\* The store operations of one call follow the loop: the k-th get is for the
\* k-th period; a get that found a record is followed by exactly one update of
\* that period, a get that returned null by exactly one create, a get that raised
\* by no write; and after the write or the raised get comes the next period's get.
OpsFollowTheLoop(c) ==
    LET ops == c.ops
        n == Len(ops)
        gets == GetsOf(ops)
    IN  /\ \A k \in 1..Len(gets) : gets[k].period = Periods[k]
        /\ \A i \in 1..n :
              ops[i].op = "get" =>
                 /\ i > 1 => \/ ops[i-1].op # "get"
                             \/ ops[i-1].outcome = "raised"
                 /\ ops[i].outcome = "found" =>
                       IF i < n THEN ops[i+1].op = "update" /\ ops[i+1].period = ops[i].period
                       ELSE c.pc \in {"write", "written"}
                 /\ ops[i].outcome = "null" =>
                       IF i < n THEN ops[i+1].op = "create" /\ ops[i+1].period = ops[i].period
                       ELSE c.pc \in {"write", "written"}
                 /\ ops[i].outcome = "raised" => (i < n => ops[i+1].op = "get")
        /\ \A i \in 1..n :
              ops[i].op # "get" =>
                 /\ i > 1
                 /\ ops[i-1].op = "get"
                 /\ ops[i-1].period = ops[i].period
                 /\ ops[i-1].outcome = (IF ops[i].op = "update" THEN "found" ELSE "null")
                 /\ i < n => ops[i+1].op = "get"

\* The store operations of a call follow the loop, and a call that has returned
\* after entering the loop has issued the five gets in the order of the periods.
PeriodsInOrder(c) ==
    /\ OpsFollowTheLoop(c)
    /\ (c.pc = "done" /\ c.info.closeKind # "missing") =>
          LET gets == GetsOf(c.ops)
          IN  /\ Len(gets) = Len(Periods)
              /\ \A k \in 1..Len(Periods) : gets[k].period = Periods[k]

\* C7: one call attempts the five periods in the order daily, weekly, monthly,
\* yearly, overall; per period one get and, if it succeeds, exactly one write
\* (create after null, update otherwise) before the next get; and a call that has
\* returned after entering the loop has issued all five gets, whatever raised.
\* Checked on every step of a call, for the call as the step leaves it.
C7_PeriodsInOrder ==
    [][ \A p \in Callers : call'[p] # call[p] => PeriodsInOrder(call'[p]) ]_vars

\* C7 witness: a returned call whose daily get raised and whose weekly write
\* raised, and which went on to update the monthly record and to get overall.
C7_Witness ==
    /\ call[1].pc = "done"
    /\ \E i \in 1..Len(call[1].ops) :
          call[1].ops[i] = [op |-> "get", period |-> "daily", outcome |-> "raised"]
    /\ \E i \in 1..Len(call[1].ops) :
          /\ call[1].ops[i].period = "weekly"
          /\ call[1].ops[i].op \in {"create", "update"}
          /\ call[1].ops[i].outcome = "raised"
    /\ \E i \in 1..Len(call[1].ops) :
          call[1].ops[i] = [op |-> "update", period |-> "monthly", outcome |-> "ok"]
    /\ \E i \in 1..Len(call[1].ops) :
          call[1].ops[i].op = "get" /\ call[1].ops[i].period = "overall"

\* C8: a call whose store operations raised on the periods F returns
\* success = true with no error, updatedPeriods = the periods not in F in
\* processing order, and created/updated entries for exactly those periods.
\* Checked on every return, for the call that returns.
C8_FailedPeriodsOmitted ==
    [][ Len(returned') > Len(returned) =>
           LET r == returned'[Len(returned')]
           IN  r.info.closeKind # "missing" =>
                  /\ r.result.success
                  /\ r.result.error = ""
                  /\ r.result.updatedPeriods = PeriodsNotIn(r.failed)
                  /\ EntryPeriods(r.result.createdRecords)
                        \cup EntryPeriods(r.result.updatedRecords) = PeriodSet \ r.failed
                  /\ Len(r.result.createdRecords) + Len(r.result.updatedRecords)
                        = Cardinality(PeriodSet \ r.failed) ]_vars

\* C8 witness: a call returned whose only failure was the write of the weekly record.
C8_Witness ==
    /\ call[1].pc = "done"
    /\ returned # << >>
    /\ returned[Len(returned)].failed = {"weekly"}
    /\ returned[Len(returned)].result.updatedPeriods
          = << "daily", "monthly", "yearly", "overall" >>
    /\ \E i \in 1..Len(call[1].ops) :
          call[1].ops[i] = [op |-> "create", period |-> "weekly", outcome |-> "raised"]

\* The callers with a call in flight.
InFlight == { p \in Callers : call[p].pc \in InFlightStates }

\* C9: no call ends by raising to its caller: every call started is in flight or
\* has returned a result; a result with success = false carries a non-empty
\* error; and the call whose closeDate cannot be read returns success = false
\* with a non-empty error and empty lists.
C9_AlwaysReturnsResult ==
    /\ \A p \in Callers : call[p].pc \in {"idle", "done"} \cup InFlightStates
    /\ Len(returned) + Cardinality(InFlight) = started
    /\ \A k \in 1..Len(returned) :
          LET r == returned[k]
          IN  /\ ~r.result.success => r.result.error # ""
              /\ r.info.closeKind = "missing" =>
                    /\ ~r.result.success
                    /\ r.result.error # ""
                    /\ r.result.updatedPeriods = << >>
                    /\ r.result.createdRecords = << >>
                    /\ r.result.updatedRecords = << >>

\* C9 witness: a call against a store that raised on all five periods returned,
\* and then a call with a null closeDate returned.
C9_Witness ==
    /\ Len(returned) = 2
    /\ returned[1].failed = PeriodSet
    /\ returned[1].result.success
    /\ returned[2].info.closeKind = "missing"
    /\ ~returned[2].result.success

\* C10: the same PositionLiquidationInfo processed twice, one call after the
\* other, against an empty store that never raises: each of the five records
\* lists the position id twice and has totalTrades = 2; the first call reports
\* five createdRecords, the second five updatedRecords.
C10_NoDeduplication ==
    ( /\ started = 2
      /\ Len(returned) = 2
      /\ returned[1].info = returned[2].info
      /\ returned[1].info.closeKind # "missing"
      /\ returned[1].failed = {}
      /\ returned[2].failed = {} )
    => LET info == returned[1].info
       IN  /\ \A i \in 1..Len(Periods) :
                 /\ DocPath(info, Periods[i]) \in DOMAIN store
                 /\ store[DocPath(info, Periods[i])].liquidatedPositionIds
                       = << info.positionId, info.positionId >>
                 /\ store[DocPath(info, Periods[i])].stats.totalTrades = 2
           /\ Len(returned[1].result.createdRecords) = 5
           /\ returned[1].result.updatedRecords = << >>
           /\ Len(returned[2].result.updatedRecords) = 5
           /\ returned[2].result.createdRecords = << >>

\* C10 witness: the documentation example processed twice without a failure.
C10_Witness ==
    /\ started = 2
    /\ Len(returned) = 2
    /\ returned[1].info = InfoWin
    /\ returned[2].info = InfoWin
    /\ returned[1].failed = {}
    /\ returned[2].failed = {}
    /\ Cardinality(DOMAIN store) = 5

\* The step is the store applying the write of caller p's call.
Stored(p) ==
    /\ call[p].pc = "write"
    /\ call'[p].pc = "written"

\* The step is caller p's call going on after its write returned.
Reported(p) ==
    /\ call[p].pc = "written"
    /\ call'[p] # call[p]

\* The document the call of caller p is working on.
CurrentPath(p) == DocPath(call[p].info, Periods[call[p].idx])

\* C11: lost update. Every write stores the merge of the event into what the
\* call's own get returned (a fresh record after null), whatever the document
\* holds at the time of the write, and reports the period; so two interleaved
\* calls for the same document both report the period while the record grows
\* by one event only.
C11_LastWriterWins ==
    [][ \A p \in Callers :
          LET c == call[p]
              period == Periods[c.idx]
              path == CurrentPath(p)
          IN  /\ Stored(p) =>
                    /\ path \in DOMAIN store'
                    /\ store'[path].stats =
                          (IF c.existing = << >> THEN calculateInitialStats(c.info)
                           ELSE calculateUpdatedStats(c.existing[1].stats, c.info))
                    /\ store'[path].liquidatedPositionIds =
                          (IF c.existing = << >> THEN << c.info.positionId >>
                           ELSE Append(c.existing[1].liquidatedPositionIds,
                                       c.info.positionId))
              /\ Reported(p) =>
                    call'[p].result.updatedPeriods
                       = Append(c.result.updatedPeriods, period) ]_vars

\* C11 witness: two calls for the same user and keys have both returned, both
\* report all five periods (one of them the daily period as created twice over),
\* and the stored daily record holds one trade and one position id.
C11_Witness ==
    /\ Len(returned) = 2
    /\ returned[1].info = InfoWin
    /\ returned[2].info = InfoWin
    /\ returned[1].result.updatedPeriods = Periods
    /\ returned[2].result.updatedPeriods = Periods
    /\ "daily" \in EntryPeriods(returned[1].result.createdRecords)
    /\ "daily" \in EntryPeriods(returned[2].result.createdRecords)
    /\ DocPath(InfoWin, "daily") \in DOMAIN store
    /\ store[DocPath(InfoWin, "daily")].stats.totalTrades = 1
    /\ Len(store[DocPath(InfoWin, "daily")].liquidatedPositionIds) = 1

\* The liquidation event that carries a position id.
InfoByPosition(id) == CHOOSE info \in FoldInfos : info.positionId = id

\* The stored documents of user123: the 2024 yearly record, the overall record
\* and the daily records of 2025-01-01 and 2025-01-05.
Yearly2024 == DocPath(InfoLoss, "yearly")
OverallOfUser == DocPath(InfoWin, "overall")
DailyOfWin == DocPath(InfoWin, "daily")
DailyOfEven == DocPath(InfoEven, "daily")

\* C12: in every stored record winCount + loseCount = totalTrades.
C12_WinsPlusLossesIsTrades ==
    \A path \in DOMAIN store :
       store[path].stats.winCount + store[path].stats.loseCount
          = store[path].stats.totalTrades

\* C12 witness: the overall record holds a win merged with a break-even trade,
\* one win and one loss out of two trades.
C12_Witness ==
    /\ OverallOfUser \in DOMAIN store
    /\ store[OverallOfUser].liquidatedPositionIds = << "pos456", "pos460" >>
    /\ store[OverallOfUser].stats.totalTrades = 2
    /\ store[OverallOfUser].stats.winCount = 1
    /\ store[OverallOfUser].stats.loseCount = 1

\* |x - y| <= |scale| * 2^-50, evaluated without rounding: x and y differ by no
\* more than the rounding of a few double operations on values of that scale.
WithinRounding(x, y, scale) ==
    ExactCmp(ExactAbs(ExactAdd(x, ExactNeg(y))),
             ExactMul(ExactAbs(scale), [s |-> 1, m |-> << 1 >>, e |-> -50])) <= 0

\* C13: in every stored record the derived fields agree with the totals:
\* winRate * totalTrades = 100 * winCount and averagePL * totalTrades =
\* totalRealizedPL, the products taken in exact arithmetic. The stored winRate
\* and averagePL are doubles: the equalities hold up to the rounding of the
\* quotients, and without any error where the number of trades is a power of two.
C13_DerivedFieldsAgree ==
    \A path \in DOMAIN store :
       LET st == store[path].stats
           rateTimesTrades == ExactMul(st.winRate, Num(st.totalTrades))
           averageTimesTrades == ExactMul(st.averagePL, Num(st.totalTrades))
       IN  /\ WithinRounding(rateTimesTrades, Num(100 * st.winCount),
                             Num(100 * st.winCount))
           /\ WithinRounding(averageTimesTrades, Num(st.totalRealizedPL),
                             Num(st.totalRealizedPL))
           /\ st.totalTrades \in {1, 2, 4} =>
                 /\ rateTimesTrades = Num(100 * st.winCount)
                 /\ averageTimesTrades = Num(st.totalRealizedPL)

\* C13 witness: the overall record after a win and two losses: the stored
\* winRate is 33.33333333333333, not the double nearest to 100/3, and three
\* times it is not 100 to the last bit.
C13_Witness ==
    /\ OverallOfUser \in DOMAIN store
    /\ store[OverallOfUser].stats.totalTrades = 3
    /\ store[OverallOfUser].stats.winCount = 1
    /\ store[OverallOfUser].stats.winRate # Decimal(100, 3)
    /\ ExactMul(store[OverallOfUser].stats.winRate, Num(3)) # Num(100)

\* C14: a record holding one liquidation has totalTrades = 1; the trade is a win
\* iff realizedPL > 0 (break-even is a loss); winCount, loseCount and winRate
\* (100 or 0) follow; totalRealizedPL = averagePL = realizedPL; averagePLRatio =
\* plRatio; totalFee = fee or 0; totalInvestment = openPrice * amount; totalProfit
\* and totalLoss hold realizedPL resp. its magnitude on the side of the outcome;
\* profitLossRatio is undefined. For the documentation example: 1 trade, 1 win,
\* 0 losses, winRate 100, totalInvestment 700000, totalFee 1000.
C14_FirstLiquidation ==
    /\ \A path \in DOMAIN store :
          Len(store[path].liquidatedPositionIds) = 1 =>
             (LET info == InfoByPosition(store[path].liquidatedPositionIds[1])
                  st == store[path].stats
                  win == info.realizedPL > 0
              IN  /\ st.totalTrades = 1
                  /\ st.winCount = (IF win THEN 1 ELSE 0)
                  /\ st.loseCount = (IF win THEN 0 ELSE 1)
                  /\ st.winRate = (IF win THEN Num(100) ELSE Num(0))
                  /\ st.totalRealizedPL = info.realizedPL
                  /\ st.averagePL = Num(info.realizedPL)
                  /\ st.averagePLRatio = info.plRatio
                  /\ st.totalFee = (IF info.fee = << >> THEN 0 ELSE info.fee[1])
                  /\ st.totalInvestment = info.openPrice * info.amount
                  /\ st.totalProfit = (IF win THEN info.realizedPL ELSE 0)
                  /\ st.totalLoss = (IF win THEN 0 ELSE -info.realizedPL)
                  /\ st.profitLossRatio = << >>)
    /\ (DailyOfWin \in DOMAIN store /\ store[DailyOfWin].liquidatedPositionIds = << "pos456" >>)
          => (LET st == store[DailyOfWin].stats
              IN  /\ st.totalTrades = 1
                  /\ st.winCount = 1
                  /\ st.loseCount = 0
                  /\ st.winRate = Num(100)
                  /\ st.totalInvestment = 700000
                  /\ st.totalFee = 1000)

\* C14 witness: the daily buckets of 2025-01-01 and 2025-01-05 each hold one
\* liquidation, the documentation example's win and a break-even trade without fee.
C14_Witness ==
    /\ DailyOfWin \in DOMAIN store
    /\ DailyOfEven \in DOMAIN store
    /\ store[DailyOfWin].liquidatedPositionIds = << "pos456" >>
    /\ store[DailyOfEven].liquidatedPositionIds = << "pos460" >>
    /\ store[DailyOfEven].stats.loseCount = 1
    /\ store[DailyOfEven].stats.totalFee = 0

\* C15: the update of an existing record increments totalTrades by 1 and exactly
\* one of winCount/loseCount (win iff realizedPL > 0), adds realizedPL to
\* totalRealizedPL, the fee (0 when absent) to totalFee, openPrice * amount to
\* totalInvestment, and realizedPL to totalProfit for a win or |realizedPL| to
\* totalLoss for a loss, all relative to the stats the call read. Merging the
\* loss of -10000 into the record created from the win of 49000 gives 2 trades,
\* 1 win, 1 loss, winRate 50, totalRealizedPL 39000, totalFee 1500,
\* totalInvestment 950000, totalLoss 10000, totalProfit 49000, profitLossRatio 4.9.
C15_MergeAddsOneTrade ==
    [][ \A p \in Callers :
          (Stored(p) /\ call[p].existing # << >>) =>
             (LET info == call[p].info
                  old == call[p].existing[1].stats
                  new == store'[CurrentPath(p)].stats
                  win == info.realizedPL > 0
              IN  /\ new.totalTrades = old.totalTrades + 1
                  /\ new.winCount = old.winCount + (IF win THEN 1 ELSE 0)
                  /\ new.loseCount = old.loseCount + (IF win THEN 0 ELSE 1)
                  /\ new.totalRealizedPL = old.totalRealizedPL + info.realizedPL
                  /\ new.totalFee = old.totalFee
                                      + (IF info.fee = << >> THEN 0 ELSE info.fee[1])
                  /\ new.totalInvestment = old.totalInvestment
                                             + info.openPrice * info.amount
                  /\ new.totalProfit = old.totalProfit
                                         + (IF win THEN info.realizedPL ELSE 0)
                  /\ new.totalLoss = old.totalLoss
                                       + (IF win THEN 0 ELSE -info.realizedPL)
                  /\ (info = InfoLoss
                       /\ call[p].existing[1].liquidatedPositionIds = << "pos456" >>)
                        => /\ new.totalTrades = 2
                           /\ new.winCount = 1
                           /\ new.loseCount = 1
                           /\ new.winRate = Num(50)
                           /\ new.totalRealizedPL = 39000
                           /\ new.totalFee = 1500
                           /\ new.totalInvestment = 950000
                           /\ new.totalLoss = 10000
                           /\ new.totalProfit = 49000
                           /\ new.profitLossRatio = << Decimal(49, 10) >>) ]_vars

\* C15 witness: the overall record holds the win of 49000 merged with the loss
\* of -10000.
C15_Witness ==
    /\ OverallOfUser \in DOMAIN store
    /\ store[OverallOfUser].liquidatedPositionIds = << "pos456", "pos457" >>
    /\ store[OverallOfUser].stats.totalTrades = 2
    /\ store[OverallOfUser].stats.totalLoss = 10000
    /\ store[OverallOfUser].stats.profitLossRatio = << Decimal(49, 10) >>

(* ---- ISO 8601 weeks and the period buckets, by their definitions ---- *)

\* The day number of the Monday of the date's Monday-to-Sunday week.
MondayOf(date) ==
    DaysFromCivil(date.y, date.m, date.d) - ((GetDay(date) + 6) % 7)

\* The ISO week-year: the calendar year of the Thursday of the date's week.
ISOWeekYear(date) == CivilFromDays(MondayOf(date) + 3).y

\* The ISO week number: week 1 is the week that contains the year's first
\* Thursday, so the week's Thursday is the week-th Thursday of the ISO week-year.
ISOWeek(date) ==
    (MondayOf(date) + 3 - DaysFromCivil(ISOWeekYear(date), 1, 1)) \div 7 + 1

\* The ISO week key YYYY-Www of a date, in the fields of a period key.
ISOWeekKey(date) == [y |-> ISOWeekYear(date), m |-> 0, d |-> 0, w |-> ISOWeek(date)]

\* The two close dates fall in the same bucket of the period.
SameBucket(a, b, period) ==
    CASE period = "daily"   -> a = b
      [] period = "weekly"  -> MondayOf(a) = MondayOf(b)
      [] period = "monthly" -> a.y = b.y /\ a.m = b.m
      [] period = "yearly"  -> a.y = b.y
      [] period = "overall" -> TRUE

\* The position ids a stored record lists.
IdsOf(path) ==
    { store[path].liquidatedPositionIds[i] :
         i \in 1..Len(store[path].liquidatedPositionIds) }

\* C16: the weekly period key of every stored weekly record is the ISO-8601 week
\* key (ISO week-year, ISO week number) of the close date of every event folded
\* into it; so the keys of 2025-01-01 and of 2024-12-31 are both 2025-W01.
C16_WeeklyKeyIsISO ==
    /\ \A path \in DOMAIN store :
          path[1] = "weekly" =>
             \A id \in IdsOf(path) :
                store[path].periodKey = ISOWeekKey(InfoByPosition(id).closeDate)
    /\ \A path \in DOMAIN store :
          (path[1] = "weekly" /\ IdsOf(path) \cap {"pos456", "pos457"} # {}) =>
             store[path].periodKey = [y |-> 2025, m |-> 0, d |-> 0, w |-> 1]

\* C17: after non-failing sequential calls, within each collection two
\* liquidations are folded into the same stored record if and only if they have
\* the same user and their close dates fall in the same bucket of the period.
C17_OneRecordPerBucket ==
    (\A q \in Callers : call[q].pc \in {"idle", "done"}) =>
       \A i, j \in 1..Len(returned) :
          \A k \in 1..Len(Periods) :
             LET a == returned[i].info
                 b == returned[j].info
                 period == Periods[k]
             IN  (\E path \in DOMAIN store :
                     /\ path[1] = CollectionName(period)
                     /\ a.positionId \in IdsOf(path)
                     /\ b.positionId \in IdsOf(path))
                 <=> (a.userId = b.userId /\ SameBucket(a.closeDate, b.closeDate, period))

\* The list s is a prefix of the list t.
IsPrefix(s, t) == Len(s) <= Len(t) /\ SubSeq(t, 1, Len(s)) = s

\* C18 as stated: whenever a write changes a record that already exists, the
\* list of position ids stored before is a prefix of the list stored after, and
\* the new list is exactly one element longer, ending in the event's position id.
C18_AppendOnly ==
    [][ \A p \in Callers :
          (Stored(p) /\ CurrentPath(p) \in DOMAIN store
                    /\ store'[CurrentPath(p)] # store[CurrentPath(p)]) =>
             (LET before == store[CurrentPath(p)].liquidatedPositionIds
                  after == store'[CurrentPath(p)].liquidatedPositionIds
              IN  /\ IsPrefix(before, after)
                  /\ Len(after) = Len(before) + 1
                  /\ after[Len(after)] = call[p].info.positionId) ]_vars

\* C18 amended: whenever a write changes a record that already exists, the list
\* stored after it is the list the call's own get returned (empty after null)
\* with the event's position id appended; if the stored record is still the one
\* the call read, the list stored before is a prefix of the list stored after,
\* which is exactly one element longer.
C18_AppendsToWhatWasRead ==
    [][ \A p \in Callers :
          (Stored(p) /\ CurrentPath(p) \in DOMAIN store
                    /\ store'[CurrentPath(p)] # store[CurrentPath(p)]) =>
             (LET before == store[CurrentPath(p)].liquidatedPositionIds
                  after == store'[CurrentPath(p)].liquidatedPositionIds
                  read == IF call[p].existing = << >> THEN << >>
                          ELSE call[p].existing[1].liquidatedPositionIds
              IN  /\ after = Append(read, call[p].info.positionId)
                  /\ call[p].existing = << store[CurrentPath(p)] >> =>
                        /\ IsPrefix(before, after)
                        /\ Len(after) = Len(before) + 1) ]_vars

\* C18 witness: the overall record lists the two events in the order they were
\* processed.
C18_Witness ==
    /\ OverallOfUser \in DOMAIN store
    /\ store[OverallOfUser].liquidatedPositionIds = << "pos457", "pos456" >>
    /\ Len(returned) = 2
    /\ "overall" \in EntryPeriods(returned[2].result.updatedRecords)

\* The fields of a record that identify it.
IdentityOf(rec) ==
    << rec.userId, rec.period, rec.periodKey, rec.startDate, rec.endDate, rec.createdAt >>

\* Caller q's call has had the store apply a create or an update of the document.
HasWritten(q, path) ==
    LET c == call[q]
    IN  /\ c.pc # "idle"
        /\ \E k \in 1..Len(Periods) :
              /\ DocPath(c.info, Periods[k]) = path
              /\ \/ c.pc = "written" /\ c.idx = k
                 \/ \E i \in 1..Len(c.ops) :
                       /\ c.ops[i].op \in {"create", "update"}
                       /\ c.ops[i].period = Periods[k]
                       /\ c.ops[i].outcome = "ok"

\* What every step keeps of the store, and what a call issues: no step removes a
\* document and a step changes no document other than the one the writing call
\* is on; a call that found a record issues an update carrying only stats,
\* liquidatedPositionIds and updatedAt, which leaves the record's userId,
\* period, periodKey, startDate, endDate and createdAt unchanged; create is
\* issued only when the call's preceding get returned no record.
UpdatesMergeCreatesFollowNull ==
    /\ DOMAIN store \subseteq DOMAIN store'
    /\ \A path \in DOMAIN store :
          store'[path] # store[path] =>
             \E p \in Callers : Stored(p) /\ path = CurrentPath(p)
    /\ \A p \in Callers :
          Stored(p) =>
             (LET c == call[p]
                  get == c.ops[Len(c.ops)]
              IN  /\ get.op = "get"
                  /\ get.period = Periods[c.idx]
                  /\ c.existing = << >> <=> get.outcome = "null"
                  /\ c.existing # << >> <=> get.outcome = "found"
                  /\ c.existing = << >> => store'[CurrentPath(p)] = c.data[1]
                  /\ c.existing # << >> =>
                        /\ DOMAIN c.data[1]
                              = {"stats", "liquidatedPositionIds", "updatedAt"}
                        /\ CurrentPath(p) \in DOMAIN store
                        /\ IdentityOf(store'[CurrentPath(p)])
                              = IdentityOf(store[CurrentPath(p)]))
    /\ \A p \in Callers :
          Reported(p) =>
             (LET c == call[p]
                  done == call'[p].ops[Len(call'[p].ops)]
                  get == c.ops[Len(c.ops)]
              IN  /\ done.period = get.period
                  /\ done.op = "create" <=> get.outcome = "null"
                  /\ done.op = "update" <=> get.outcome = "found")

\* C19 as stated: an existing record is mutated, never replaced or deleted.
\* Every write the store applies to a document that holds a record is an update
\* and leaves the record's userId, period, periodKey, startDate, endDate and
\* createdAt unchanged; besides, updates carry only stats, liquidatedPositionIds
\* and updatedAt, create is issued only after a get that returned no record, no
\* step removes a document and no step changes a document of another call.
C19_MutatedNeverReplaced ==
    [][ /\ UpdatesMergeCreatesFollowNull
        /\ \A p \in Callers :
              (Stored(p) /\ CurrentPath(p) \in DOMAIN store) =>
                 /\ call[p].existing # << >>
                 /\ IdentityOf(store'[CurrentPath(p)])
                       = IdentityOf(store[CurrentPath(p)]) ]_vars

\* C19 amended: no step removes a document or changes a document of another
\* call; an update carries only stats, liquidatedPositionIds and updatedAt and
\* leaves the identifying fields and createdAt of the stored record unchanged;
\* create is issued only after a get of the same call that returned no record.
\* A write onto a document that still holds what the call read keeps the
\* record's identifying fields and createdAt. A create replaces a stored record,
\* createdAt included, only when another call has written that document since
\* this call's get returned null.
C19_MutatedUnlessRaced ==
    [][ /\ UpdatesMergeCreatesFollowNull
        /\ \A p \in Callers :
              (Stored(p) /\ CurrentPath(p) \in DOMAIN store) =>
                 /\ call[p].existing = << store[CurrentPath(p)] >> =>
                       IdentityOf(store'[CurrentPath(p)])
                          = IdentityOf(store[CurrentPath(p)])
                 /\ call[p].existing = << >> =>
                       /\ store'[CurrentPath(p)] = call[p].data[1]
                       /\ \E q \in Callers \ {p} : HasWritten(q, CurrentPath(p)) ]_vars

\* C19 witness: of two interleaved calls one created the overall record at
\* time 1 and the other, whose get found it, updated it at time 2: the record
\* lists both events and keeps its creation time.
C19_Witness ==
    /\ OverallOfUser \in DOMAIN store
    /\ Len(store[OverallOfUser].liquidatedPositionIds) = 2
    /\ store[OverallOfUser].createdAt = 1
    /\ store[OverallOfUser].updatedAt = 2
    /\ store[OverallOfUser].userId = "user123"
    /\ store[OverallOfUser].period = "overall"
    /\ \E i \in 1..Len(returned) :
          "overall" \in EntryPeriods(returned[i].result.updatedRecords)

\* The realizedPL of the events a stored record lists, in order.
PLsOf(path) ==
    [ i \in 1..Len(store[path].liquidatedPositionIds) |->
         InfoByPosition(store[path].liquidatedPositionIds[i]).realizedPL ]

RECURSIVE SumSeq(_)
SumSeq(xs) == IF xs = << >> THEN 0 ELSE Head(xs) + SumSeq(Tail(xs))

\* The smallest and the largest number of a non-empty set.
MinOf(S) == CHOOSE x \in S : \A y \in S : x <= y
MaxOf(S) == CHOOSE x \in S : \A y \in S : x >= y

\* C20: in every stored record maxLoss <= 0 is the most negative realizedPL of
\* the losing trades folded in (0 if none) and maxProfit >= 0 the largest
\* realizedPL of the winning trades (0 if none), while totalLoss >= 0 is the sum
\* of the magnitudes of the losing trades and totalProfit >= 0 the sum of the
\* winning trades.
C20_LossSigns ==
    \A path \in DOMAIN store :
       LET pls == PLsOf(path)
           st == store[path].stats
           losses == SelectSeq(pls, LAMBDA x : x <= 0)
           wins == SelectSeq(pls, LAMBDA x : x > 0)
           lossSet == { losses[i] : i \in 1..Len(losses) }
           winSet == { wins[i] : i \in 1..Len(wins) }
       IN  /\ st.maxLoss <= 0
           /\ st.maxLoss = (IF lossSet = {} THEN 0 ELSE MinOf(lossSet))
           /\ st.maxProfit >= 0
           /\ st.maxProfit = (IF winSet = {} THEN 0 ELSE MaxOf(winSet))
           /\ st.totalLoss >= 0
           /\ st.totalLoss = -SumSeq(losses)
           /\ st.totalProfit >= 0
           /\ st.totalProfit = SumSeq(wins)

\* C20 witness: the 2024 yearly record after the losses of -2999 and -10000:
\* maxLoss is negative, totalLoss positive.
C20_Witness ==
    /\ Yearly2024 \in DOMAIN store
    /\ store[Yearly2024].liquidatedPositionIds = << "pos462", "pos457" >>
    /\ store[Yearly2024].stats.maxLoss = -10000
    /\ store[Yearly2024].stats.totalLoss = 12999
    /\ store[Yearly2024].stats.maxProfit = 0

\* C21 as stated: after a merge profitLossRatio is defined exactly when
\* loseCount > 0 and totalLoss/loseCount is non-zero, and then it equals
\* (totalProfit/winCount) / (totalLoss/loseCount), a quotient that exists only
\* for winCount > 0.
C21_RatioOfAverages ==
    \A path \in DOMAIN store :
       LET st == store[path].stats
       IN  st.totalTrades >= 2 =>
              /\ st.profitLossRatio # << >> <=> (st.loseCount > 0 /\ st.totalLoss # 0)
              /\ st.profitLossRatio # << >> =>
                    /\ st.winCount > 0
                    /\ st.profitLossRatio[1] =
                          NumDiv(NumDiv(Num(st.totalProfit), Num(st.winCount)),
                                 NumDiv(Num(st.totalLoss), Num(st.loseCount)))

\* C21 amended: after a merge profitLossRatio is defined exactly when
\* loseCount > 0 and totalLoss/loseCount is non-zero, and then it equals
\* avgProfit / (totalLoss/loseCount), where avgProfit is totalProfit/winCount
\* for winCount > 0 and 0 for winCount = 0; in every other case it is undefined.
C21_RatioOfAveragesOrZero ==
    \A path \in DOMAIN store :
       LET st == store[path].stats
           avgProfit == IF st.winCount > 0
                          THEN NumDiv(Num(st.totalProfit), Num(st.winCount))
                          ELSE Num(0)
       IN  st.totalTrades >= 2 =>
              /\ st.profitLossRatio # << >> <=> (st.loseCount > 0 /\ st.totalLoss # 0)
              /\ st.profitLossRatio # << >> =>
                    st.profitLossRatio[1] =
                       NumDiv(avgProfit, NumDiv(Num(st.totalLoss), Num(st.loseCount)))

\* C21 witness: the 2024 yearly record after two losses has no win and a
\* profitLossRatio of 0.
C21_Witness ==
    /\ Yearly2024 \in DOMAIN store
    /\ store[Yearly2024].stats.totalTrades = 2
    /\ store[Yearly2024].stats.winCount = 0
    /\ store[Yearly2024].stats.loseCount = 2
    /\ store[Yearly2024].stats.profitLossRatio = << Num(0) >>

\* C22 as stated: in every stored record profitLossRatio is defined only if
\* winCount >= 1 and loseCount >= 1.
C22_NeedsWinAndLoss ==
    \A path \in DOMAIN store :
       store[path].stats.profitLossRatio # << >> =>
          (store[path].stats.winCount >= 1 /\ store[path].stats.loseCount >= 1)

\* C22 amended: in every stored record profitLossRatio is defined exactly when
\* the record holds at least two trades, loseCount >= 1 and totalLoss > 0; a win
\* is not needed, and without one the defined value is 0.
C22_NeedsLossAndMerge ==
    \A path \in DOMAIN store :
       LET st == store[path].stats
       IN  /\ st.profitLossRatio # << >> <=>
                 (st.totalTrades >= 2 /\ st.loseCount >= 1 /\ st.totalLoss > 0)
           /\ (st.profitLossRatio # << >> /\ st.winCount = 0) =>
                 st.profitLossRatio[1] = Num(0)

\* C22 witness: the overall record after a break-even trade and a loss: no win,
\* two losing trades, profitLossRatio defined.
C22_Witness ==
    /\ OverallOfUser \in DOMAIN store
    /\ store[OverallOfUser].liquidatedPositionIds = << "pos460", "pos457" >>
    /\ store[OverallOfUser].stats.winCount = 0
    /\ store[OverallOfUser].stats.totalLoss = 10000
    /\ store[OverallOfUser].stats.profitLossRatio # << >>

RECURSIVE FoldStats(_)
FoldStats(infos) ==
    IF Len(infos) = 1
      THEN NewRecord(infos[1], "overall", "UTC", 0, 0).stats
      ELSE UpdateData([ stats |-> FoldStats(SubSeq(infos, 1, Len(infos) - 1)),
                        liquidatedPositionIds |-> << >> ],
                      infos[Len(infos)], 0).stats

\* The events a record lists, in the order they were folded in.
EventsOf(record) ==
    [ i \in 1..Len(record.liquidatedPositionIds) |->
         InfoByPosition(record.liquidatedPositionIds[i]) ]

\* The sum of the magnitudes of the plRatio of the events of a list.
RECURSIVE SumOfRatioMagnitudes(_)
SumOfRatioMagnitudes(infos) ==
    IF infos = << >> THEN NumZero
    ELSE ExactAdd(ExactAbs(infos[1].plRatio), SumOfRatioMagnitudes(Tail(infos)))

\* The stats of a record are those of folding its events in any order: every
\* field but averagePLRatio to the last bit, averagePLRatio to within n * 2^-50
\* of the sum of the |plRatio| of its n events.
SameInAnyOrder(record) ==
    LET events == EventsOf(record)
        n == Len(events)
        st == record.stats
        scale == ExactMul(Num(n), SumOfRatioMagnitudes(events))
    IN  \A perm \in Permutations(1..n) :
           LET other == FoldStats([i \in 1..n |-> events[perm[i]]])
           IN  /\ [other EXCEPT !.averagePLRatio = st.averagePLRatio] = st
               /\ WithinRounding(other.averagePLRatio, st.averagePLRatio, scale)

\* C29: folding is order-independent. Every write to the store leaves a record
\* whose stats equal the stats obtained by folding the events it lists in any
\* other order, field by field (the store starts empty, so every stored record
\* is one a write left). averagePLRatio, the one field computed from a rounded
\* running value, is the same up to the rounding of the double operations (the
\* same under exact arithmetic): the two orders differ by at most n * 2^-50 of
\* the sum of the |plRatio| of the n events, each merge rounding three times.
\* Every other field is the same to the last bit.
C29_FoldOrderIndependent ==
    [][ \A path \in DOMAIN store' :
           (path \notin DOMAIN store \/ store'[path] # store[path])
              => SameInAnyOrder(store'[path]) ]_vars

\* C29 witness: the overall record after the losses of -10000 and -2999 and then
\* the win of 49000, whose averagePLRatio differs in its last bits from that of
\* the order win, loss, loss, every other field being the same.
C29_Witness ==
    /\ OverallOfUser \in DOMAIN store
    /\ store[OverallOfUser].liquidatedPositionIds = << "pos457", "pos462", "pos456" >>
    /\ store[OverallOfUser].stats.totalTrades = 3
    /\ store[OverallOfUser].stats.maxLoss = -10000
    /\ store[OverallOfUser].stats.averagePLRatio
          # FoldStats(<< InfoWin, InfoLoss, InfoFirstWeek >>).averagePLRatio

\* The number of entries of a list of 'period:docId' entries that are for a period.
EntriesFor(entries, period) ==
    Cardinality({ i \in 1..Len(entries) : entries[i][1] = period })

\* The log has a write of the given kind for the period that succeeded.
WriteSucceeded(ops, kind, period) ==
    \E i \in 1..Len(ops) :
       ops[i].op = kind /\ ops[i].period = period /\ ops[i].outcome = "ok"

\* The result of a call c, at any point of the call.
ResultConsistent(c) ==
    LET res == c.result
        ups == res.updatedPeriods
    IN  /\ \A i, j \in 1..Len(ups) : ups[i] = ups[j] => i = j
        /\ \A period \in PeriodSet :
              LET created == EntriesFor(res.createdRecords, period)
                  updated == EntriesFor(res.updatedRecords, period)
              IN  /\ (\E i \in 1..Len(ups) : ups[i] = period)
                        <=> created + updated = 1
                  /\ created + updated <= 1
                  /\ created = 1 => WriteSucceeded(c.ops, "create", period)
                  /\ updated = 1 => WriteSucceeded(c.ops, "update", period)
        /\ \A i \in 1..Len(res.createdRecords) :
              res.createdRecords[i] =
                 << res.createdRecords[i][1], DocId(c.info, res.createdRecords[i][1]) >>
        /\ \A i \in 1..Len(res.updatedRecords) :
              res.updatedRecords[i] =
                 << res.updatedRecords[i][1], DocId(c.info, res.updatedRecords[i][1]) >>
        /\ ~res.success =>
              /\ ups = << >>
              /\ res.createdRecords = << >>
              /\ res.updatedRecords = << >>
              /\ c.ops = << >>

\* C24: the result of a call is internally consistent whatever the store does: each
\* period occurs at most once in updatedPeriods; a period is in updatedPeriods
\* iff exactly one entry for it is in createdRecords or updatedRecords, never in
\* both; an entry is there only after the corresponding write succeeded; and a
\* result with success = false has three empty lists and no store operation
\* behind it. Checked on every step of a call, for the call as the step leaves it.
C24_ResultConsistent ==
    [][ \A p \in Callers : call'[p] # call[p] => ResultConsistent(call'[p]) ]_vars

\* C24 witness: a call without a close date has returned success = false, and
\* the call after it has returned with a raised weekly write and a raised yearly
\* get: three periods reported, each with one created entry.
C24_Witness ==
    /\ Len(returned) = 2
    /\ ~returned[1].result.success
    /\ call[1].pc = "done"
    /\ call[1].result.success
    /\ call[1].failed = {"weekly", "yearly"}
    /\ call[1].result.updatedPeriods = << "daily", "monthly", "overall" >>
    /\ Len(call[1].result.createdRecords) = 3
    /\ \E i \in 1..Len(call[1].ops) :
          call[1].ops[i] = [op |-> "create", period |-> "weekly", outcome |-> "raised"]

\* C23: in every stored record, after any sequence and interleaving of calls,
\* concurrent calls on the same document and raising store operations included,
\* stats.totalTrades equals the length of liquidatedPositionIds and is at
\* least 1.
C23_TradesMatchIds ==
    \A path \in DOMAIN store :
       /\ store[path].stats.totalTrades = Len(store[path].liquidatedPositionIds)
       /\ store[path].stats.totalTrades >= 1

\* C23 witness: two racing calls have returned, an operation of each raised,
\* one document holds both events and another document, reported by both calls,
\* holds one.
C23_Witness ==
    /\ Len(returned) = 2
    /\ returned[1].failed # {}
    /\ returned[2].failed # {}
    /\ \E path \in DOMAIN store : store[path].stats.totalTrades = 2
    /\ \E k \in 1..Len(Periods) :
          /\ Periods[k] \notin returned[1].failed \cup returned[2].failed
          /\ DocPath(returned[1].info, Periods[k]) = DocPath(returned[2].info, Periods[k])
          /\ store[DocPath(returned[1].info, Periods[k])].stats.totalTrades = 1

(***************************************************************************)
(* Lifecycle claims: reachability, reconciliation, actions, audit log      *)
(***************************************************************************)

\* The statuses isValidTransition accepts as the next status of s.
Successors(s) == { t \in PositionLifecycleStatus : isValidTransition(s, t).value }

\* The statuses reachable from a set of statuses by chains of allowed transitions.
RECURSIVE Closure(_)
Closure(S) ==
    LET next == S \cup UNION { Successors(s) : s \in S }
    IN  IF next = S THEN S ELSE Closure(next)

ReachableFrom(s) == Closure({s})

\* C25: from whatever status a position is in, liquidated is reachable by a
\* finite chain of allowed transitions; no status other than liquidated is a
\* dead end, and no set of statuses without liquidated is closed.
C25_LiquidatedReachable ==
    /\ "liquidated" \in ReachableFrom(lifecycleStatus)
    /\ lifecycleStatus # "liquidated" => Successors(lifecycleStatus) # {}

\* C25 witness: a position that has just expired, from where the chain to
\* liquidated starts with the re-order.
C25_Witness ==
    /\ lifecycleStatus = "expired"
    /\ lastMove = [from |-> "entry_unconfirmed", to |-> "expired", by |-> "validated"]
    /\ Successors("expired") = {"entry_order_pending"}
    /\ "liquidated" \in ReachableFrom("expired")

\* The statuses a reconciliation rule is written for.
ReconciledStatuses == { "entry_order_pending", "entry_unconfirmed", "exit_order_pending" }

\* The statuses a step of the claim's reconciliation moves a position of status
\* s to: the targets of the rules for s whose action is transition or expire.
RuleTargets(s) ==
    { DAILY_SYNC_RULES[i].targetPositionStatus :
         i \in { j \in 1..Len(DAILY_SYNC_RULES) :
                   /\ DAILY_SYNC_RULES[j].currentPositionStatus = s
                   /\ DAILY_SYNC_RULES[j].action \in {"transition", "expire"} } }

\* C26: reconciliation alone terminates. From any status, steps that observe
\* an arbitrary order status and move the position to the target of the
\* matching rule, for transition and expire rules alike, change the status at
\* most twice; after two changes, and in every status other than
\* entry_order_pending, entry_unconfirmed and exit_order_pending, no rule
\* matches for any order status. No rule has the target confirmed and no rule
\* is written for a status outside those three, so no step moves a position
\* into confirmed or out of confirmed, liquidated, expired or a failed or
\* cancelled status.
C26_ReconciliationTerminates ==
    /\ syncChanges <= 2
    /\ (syncChanges = 2 \/ lifecycleStatus \notin ReconciledStatuses) =>
          \A o \in OrderStatus : FindSyncRule(o, lifecycleStatus) = << >>
    /\ \A s \in PositionLifecycleStatus :
          /\ "confirmed" \notin RuleTargets(s)
          /\ RuleTargets(s) # {} => s \in ReconciledStatuses
    /\ lastSync.applied =>
          /\ lastSync.after # "confirmed"
          /\ lastSync.before \in ReconciledStatuses
    /\ ~lastSync.applied => lastSync.after = lastSync.before

\* C26 witness: two steps have changed the status, entry_order_pending to
\* entry_unconfirmed on a completed order and entry_unconfirmed to expired by
\* the expire rule, and no rule matches the expired position any more.
C26_Witness ==
    /\ syncChanges = 2
    /\ lifecycleStatus = "expired"
    /\ lastMove = [from |-> "entry_unconfirmed", to |-> "expired", by |-> "expire"]
    /\ lastSync.observed = "completed"
    /\ lastSync.applied
    /\ \A o \in OrderStatus : FindSyncRule(o, "expired") = << >>

\* The *_order_cancelled status that matches a status: the entry one for the
\* statuses of the entry process, the exit one for those of the exit process.
CancelledOf(s) ==
    IF s \in { "entry_order_pending", "entry_order_failed", "entry_order_cancelled",
               "entry_unconfirmed", "expired" }
      THEN "entry_order_cancelled"
      ELSE "exit_order_cancelled"

\* C27: the user actions offered for the position's status agree with the
\* transition matrix: 'exit' is offered only where the transition to
\* exit_order_pending is allowed, 'confirm' only where the transition to
\* confirmed is allowed, 'cancel' only where the transition to the matching
\* *_order_cancelled status is allowed.
C27_ActionsAgreeWithMatrix ==
    LET actions == getAvailableActions(lifecycleStatus)
    IN  /\ Includes(actions, "exit") =>
              isValidTransition(lifecycleStatus, "exit_order_pending").value
        /\ Includes(actions, "confirm") =>
              isValidTransition(lifecycleStatus, "confirmed").value
        /\ Includes(actions, "cancel") =>
              isValidTransition(lifecycleStatus, CancelledOf(lifecycleStatus)).value

\* C28: transition-log ids are unique per position. Any two logs created for
\* the same positionId have different ids, so storing a log under its id
\* overwrites no earlier log: every log whose set has been applied is in the
\* store as it was created.
C28_LogIdsUnique ==
    /\ \A i, j \in 1..Len(transitionLogs) :
          (i # j /\ transitionLogs[i].positionId = transitionLogs[j].positionId)
             => transitionLogs[i].id # transitionLogs[j].id
    /\ \A i \in 1..Len(transitionLogs) :
          i \notin unsaved =>
             /\ transitionLogs[i].id \in DOMAIN logStore
             /\ logStore[transitionLogs[i].id] = transitionLogs[i]

====
